---- MODULE Spec2Model ----
(***************************************************************************)
(* Model of the youtube-podcast repository:                                *)
(*   src/youtube_subs_daily.py            the ingestion run                *)
(*   src/summarize_and_email.py           the summarizer (retry executor)  *)
(*   src/templates/summarize_and_email.py the template summarizer          *)
(***************************************************************************)
EXTENDS Integers, Sequences, FiniteSets, TLC

VARIABLES
    retry,      \* locals of one post_with_retries call
    sorter,     \* one call of the sort at the head of write_csv
    walk,       \* locals of one fetch_playlist_items_pages call
    enrich,     \* locals of one enrich_videos call
    world,      \* what the catalog currently answers (listing, channels, videos)
    worldAge,   \* "unknown": contents changed; "new": not yet ingested; "ran": a
                \* run over exactly these contents has completed; "crashed": a
                \* run over them died between its append and its state write
    stateFile,  \* state.json
    alltime,    \* outputs/alltime_videos.csv
    dayfile,    \* outputs/updates_<today>.csv
    clock,      \* number of runs started so far (stands for the wall clock)
    pc,         \* per process: position of run()
    state,      \* per process: the dict returned by read_state
    seen_ids,   \* per process: the in-memory set
    channel_ids,\* per process: result of list_all_subscriptions
    idx,        \* per process: index of the next channel of the for loop
    new_rows,   \* per process: rows collected so far
    nRows,      \* per process: row count n returned by write_csv
    lastCalls,  \* per process: the catalog calls of the latest step
    replay,     \* per process: the run started on contents of age "ran"
    stateWrites,\* per process: calls of write_state made by the run so far
    norm,       \* one call of parse_json_or_fallback
    summ,       \* locals of one run of the summarizer's main
    lister,     \* locals of one list_all_subscriptions call
    tretry,     \* locals of one post_with_retries call of the template summarizer
    overlapped  \* a run has loaded the state while another run was in progress

stageVars == <<norm, summ, lister, tretry>>

pureVars == <<retry, sorter, walk, enrich, norm, summ, lister, tretry>>

fileVars == <<stateFile, alltime, dayfile>>

procVars == <<pc, state, seen_ids, channel_ids, idx, new_rows, nRows, lastCalls, replay,
              stateWrites>>

runVars == <<world, worldAge, stateFile, alltime, dayfile, clock, pc, state, seen_ids,
             channel_ids, idx, new_rows, nRows, lastCalls, replay, stateWrites,
             overlapped>>

vars == <<retry, sorter, walk, enrich, world, worldAge, stateFile, alltime, dayfile, clock,
          pc, state, seen_ids, channel_ids, idx, new_rows, nRows, lastCalls, replay,
          stateWrites, norm, summ, lister, tretry, overlapped>>

(***************************************************************************)
(* Bounds of the model.                                                    *)
(***************************************************************************)
MaxTries == 7          \* post_with_retries is called with tries in 1..MaxTries

MaxRows == 3           \* write_csv is handed at most MaxRows rows in the sort model

MaxFeedPages == 3      \* a feed of the walk model has at most MaxFeedPages pages

MaxBudget == 3         \* --pages is given as 0..MaxBudget in the walk model

MaxVideoIds == 120     \* enrich_videos is handed at most MaxVideoIds ids

MaxId == 2             \* videos of the run model are 1..MaxId

MaxRunFeedPages == 2   \* a feed of the run model has at most MaxRunFeedPages pages

MaxRuns == 2           \* at most MaxRuns runs are started

NumProcs == 2          \* processes that may execute run()

MaxSinkLines == 6      \* a sink of the sink model stays below MaxSinkLines lines

MaxTextLines == 3      \* a freeform text of the normalizer model has up to MaxTextLines lines

MaxTextExcess == 2     \* by how much a text of the normalizer model exceeds a budget

MaxReportRows == 3     \* the day's partition of the summarizer model has up to MaxReportRows rows

MaxListPages == 3      \* a listing of the enumeration model has up to MaxListPages pages

(***************************************************************************)
(* Generic helpers.                                                        *)
(***************************************************************************)
Min(a, b) == IF a <= b THEN a ELSE b

Max(a, b) == IF a >= b THEN a ELSE b

RECURSIVE Pow2(_)
Pow2(k) == IF k <= 0 THEN 1 ELSE 2 * Pow2(k - 1)

\* Body(val), with val evaluated once however often Body uses it
Once(val, Body(_)) == CHOOSE out \in {Body(x) : x \in {val}} : TRUE

(***************************************************************************)
(* post_with_retries (src/summarize_and_email.py:60-71).                   *)
(***************************************************************************)
\* The statuses the remote end answers with in the model.
ResponseStatuses == {200, 304, 404, 429, 500, 502, 503, 504}

DefaultTries == 5

InitialBackoff == 2

BackoffCap == 60

\* resp.status_code in (429, 500, 502, 503, 504)
IsTransient(s) == s \in {429, 500, 502, 503, 504}

\* requests.Response.raise_for_status: raises for 4xx and 5xx only.
RaiseForStatus(s) == s >= 400 /\ s < 600

IsLastTryOffByOne(i, tries) == i = tries

\* if i == tries - 1
IsLastTry(i, tries) == i = tries - 1

NextBackoffLinear(b) == Min(b + 2, BackoffCap)

\* backoff = min(backoff * 2, 60)
NextBackoff(b) == Min(b * 2, BackoffCap)

RetryStart(tries) ==
    [tries |-> tries, i |-> 0, backoff |-> InitialBackoff, sleeps |-> <<>>,
     statuses |-> <<>>, pc |-> "loop", returned |-> 0]

\* One iteration of `for i in range(tries)` with the response status s.
RetryIteration(r, s) ==
    LET seen == [r EXCEPT !.statuses = Append(@, s)] IN
    IF IsTransient(s)
    THEN IF IsLastTry(r.i, r.tries) /\ RaiseForStatus(s)
         THEN [seen EXCEPT !.pc = "raised"]
         ELSE [seen EXCEPT !.sleeps = Append(@, r.backoff),
                           !.backoff = NextBackoff(r.backoff),
                           !.i = r.i + 1,
                           \* the loop ends without a return: the call yields None
                           !.pc = IF r.i + 1 >= r.tries THEN "none" ELSE "loop"]
    ELSE IF RaiseForStatus(s)
         THEN [seen EXCEPT !.pc = "raised"]
         ELSE [seen EXCEPT !.pc = "returned", !.returned = s]

(***************************************************************************)
(* parse_iso_dt and the sort of write_csv (src/youtube_subs_daily.py:181-190).*)
(* A `published` string is modelled by its form and the instant it denotes, *)
(* counted in ticks from datetime.min (0001-01-01T00:00:00):               *)
(*   "Z"      "<t>Z"          UTC designator, rewritten to +00:00          *)
(*   "offset" "<t>+hh:00"     explicit UTC offset `off`                    *)
(*   "naive"  "<t>"           ISO date-time without an offset              *)
(*   "bad"    not ISO-8601;   "empty"  the empty string                    *)
(***************************************************************************)
Timestamps ==
    {[form |-> "Z", t |-> 1, off |-> 0], [form |-> "Z", t |-> 2, off |-> 0],
     [form |-> "offset", t |-> 2, off |-> 1], [form |-> "offset", t |-> 0, off |-> 1],
     [form |-> "naive", t |-> 1, off |-> 0], [form |-> "naive", t |-> 2, off |-> 0],
     [form |-> "bad", t |-> 0, off |-> 0], [form |-> "empty", t |-> 0, off |-> 0]}

\* datetime.min.replace(tzinfo=timezone.utc)
DatetimeMinUtc == [aware |-> TRUE, local |-> 0, off |-> 0]

\* datetime.fromisoformat(s.replace("Z", "+00:00")), or datetime.min (UTC) when
\* that raises.
parse_iso_dt(ts) ==
    CASE ts.form = "Z"      -> [aware |-> TRUE, local |-> ts.t, off |-> 0]
      [] ts.form = "offset" -> [aware |-> TRUE, local |-> ts.t, off |-> ts.off]
      [] ts.form = "naive"  -> [aware |-> FALSE, local |-> ts.t, off |-> 0]
      [] OTHER              -> DatetimeMinUtc

\* datetime.__lt__: aware values compare by UTC instant, naive ones by wall time;
\* comparing a naive with an aware value raises TypeError.
Comparable(a, b) == a.aware = b.aware

KeyLess(a, b) ==
    IF a.aware THEN (a.local - a.off) < (b.local - b.off) ELSE a.local < b.local

Range(f) == {f[i] : i \in DOMAIN f}

\* list.sort compares across the whole list: it raises as soon as two keys of
\* the list are not comparable.
SortRaises(rows) ==
    \E i, j \in 1..Len(rows) :
        ~Comparable(parse_iso_dt(rows[i].published), parse_iso_dt(rows[j].published))

\* Insert row r behind every row of the sorted prefix that is not greater.
RECURSIVE InsertRow(_, _)
InsertRow(sorted, r) ==
    IF sorted = <<>> THEN <<r>>
    ELSE IF KeyLess(parse_iso_dt(r.published), parse_iso_dt(sorted[Len(sorted)].published))
         THEN Append(InsertRow(SubSeq(sorted, 1, Len(sorted) - 1), r), sorted[Len(sorted)])
         ELSE Append(sorted, r)

\* rows.sort(key=lambda r: parse_iso_dt(r["published"])): stable, ascending.
RECURSIVE SortedRows(_)
SortedRows(rows) ==
    IF rows = <<>> THEN <<>>
    ELSE InsertRow(SortedRows(SubSeq(rows, 1, Len(rows) - 1)), rows[Len(rows)])

\* Rows of the sort model: the k-th row handed over has video_id k.
SortInputs ==
    UNION {{[k \in 1..n |-> [video_id |-> k, published |-> f[k], channel_id |-> 1]] :
                f \in [1..n -> Timestamps]} : n \in 0..MaxRows}

(***************************************************************************)
(* Catalog calls: <request>.execute() of the Google API client issues the  *)
(* request once (num_retries is left at 0) and raises HttpError for a      *)
(* response status of 300 or more.                                         *)
(***************************************************************************)
ExecuteRaises(status) == status >= 300

\* BATCH_SIZE_VIDEOS and MAX_RESULTS
BATCH_SIZE_VIDEOS == 50

MAX_RESULTS == 50

(***************************************************************************)
(* fetch_playlist_items_pages (src/youtube_subs_daily.py:142-159).         *)
(* A feed is the sequence of its page responses; page k answers the        *)
(* request that carries token k (the first request carries no token, 0),   *)
(* and a response is [status, items, next] with next = 0 for no            *)
(* nextPageToken.                                                          *)
(***************************************************************************)
\* `not page_token`
NoToken(token) == token = 0

BudgetReachedLate(fetched, pages) == fetched > pages

\* `fetched >= pages`
BudgetReached(fetched, pages) == fetched >= pages

\* run(pages=max(1, args.pages))
MainPages(argsPages) == Max(1, argsPages)

WalkStart(feed, pages) ==
    [feed |-> feed, pages |-> pages, items |-> <<>>, page_token |-> 0,
     fetched |-> 0, requests |-> <<>>, replies |-> <<>>, status |-> 200, pc |-> "loop"]

\* One iteration of the `while True` loop.
WalkStep(w) ==
    LET resp == w.feed[IF w.page_token = 0 THEN 1 ELSE w.page_token]
        sent == [w EXCEPT !.requests = Append(@, w.page_token), !.status = resp.status]
    IN  IF ExecuteRaises(resp.status)
        THEN [sent EXCEPT !.pc = "HttpError"]
        ELSE [sent EXCEPT !.items = w.items \o resp.items,
                          !.page_token = resp.next,
                          !.replies = Append(@, resp.next),
                          !.fetched = w.fetched + 1,
                          !.pc = IF NoToken(resp.next) \/ BudgetReached(w.fetched + 1, w.pages)
                                 THEN "done" ELSE "loop"]

RECURSIVE WalkRun(_)
WalkRun(w) == IF w.pc = "loop" THEN WalkRun(WalkStep(w)) ELSE w

fetch_playlist_items_pages(feed, pages) == WalkRun(WalkStart(feed, pages))

WalkIdle == [feed |-> <<>>, pages |-> 0, items |-> <<>>, page_token |-> 0,
             fetched |-> 0, requests |-> <<>>, replies |-> <<>>, status |-> 200, pc |-> "idle"]

\* Feeds of the walk model: page k holds videos 50(k-1)+1 .. 50(k-1)+size and
\* names page k+1 as the next one unless it is the last.
WalkPageSizes == {0, 1, MAX_RESULTS}

WalkFeeds ==
    UNION {{[k \in 1..n |->
                [status |-> st[k],
                 items |-> [j \in 1..sz[k] |-> MAX_RESULTS * (k - 1) + j],
                 next |-> IF k < n THEN k + 1 ELSE 0]] :
            st \in [1..n -> {200, 503}], sz \in [1..n -> WalkPageSizes]} :
           n \in 1..MaxFeedPages}

(***************************************************************************)
(* chunked and enrich_videos (src/youtube_subs_daily.py:161-179).          *)
(* The catalog answers videos.list for a chunk with the details of those   *)
(* ids it still has (`missing` ones are left out) and with an error status *)
(* when the chunk holds an id of `poison`.                                 *)
(***************************************************************************)
chunkedOverlapping(seq, n) ==
    [k \in 1..((Len(seq) + n - 1) \div n) |->
        SubSeq(seq, (k - 1) * n + 1, Min(k * n + 1, Len(seq)))]

\* for i in range(0, len(seq), n): yield seq[i:i+n]
chunked(seq, n) ==
    [k \in 1..((Len(seq) + n - 1) \div n) |->
        SubSeq(seq, (k - 1) * n + 1, Min(k * n, Len(seq)))]

\* youtube.videos().list(id=",".join(chunk), ...).execute()
VideosList(catalog, chunk) ==
    IF Range(chunk) \cap catalog.poison # {}
    THEN [status |-> 503, items |-> {}]
    ELSE [status |-> 200, items |-> Range(chunk) \ catalog.missing]

EnrichStart(catalog, video_ids) ==
    [catalog |-> catalog, video_ids |-> video_ids, k |-> 1, out |-> {},
     calls |-> <<>>, replies |-> <<>>, pc |-> "loop"]

\* One iteration of `for chunk in chunked(video_ids, BATCH_SIZE_VIDEOS)`;
\* `out` is the key set of the result dict.
EnrichStep(e) ==
    LET chunks == chunked(e.video_ids, BATCH_SIZE_VIDEOS) IN
    IF e.k > Len(chunks)
    THEN [e EXCEPT !.pc = "done"]
    ELSE LET resp == VideosList(e.catalog, chunks[e.k])
             sent == [e EXCEPT !.calls = Append(@, chunks[e.k])]
         IN  IF ExecuteRaises(resp.status)
             THEN [sent EXCEPT !.pc = "HttpError"]
             ELSE [sent EXCEPT !.out = e.out \cup resp.items,
                               !.replies = Append(@, resp.items),
                               !.k = e.k + 1]

RECURSIVE EnrichRun(_)
EnrichRun(e) == IF e.pc = "loop" THEN EnrichRun(EnrichStep(e)) ELSE e

enrich_videosLenient(catalog, video_ids) ==
    [EnrichRun(EnrichStart(catalog, video_ids)) EXCEPT !.pc = "done"]

enrich_videos(catalog, video_ids) == EnrichRun(EnrichStart(catalog, video_ids))

EnrichIdle == [catalog |-> [missing |-> {}, poison |-> {}], video_ids |-> <<>>, k |-> 1,
               out |-> {}, calls |-> <<>>, replies |-> <<>>, pc |-> "idle"]

\* Catalogs of the enrichment model.
EnrichCatalogs ==
    {[missing |-> m, poison |-> q] :
        m \in {{}, {1}, {50, 51}, 1..MaxVideoIds}, q \in {{}, {101}}}

(***************************************************************************)
(* list_all_subscriptions (src/youtube_subs_daily.py:114-133).             *)
(* The listing is the sequence of its page responses, as for a feed; an    *)
(* entry is the resourceId of one subscription.                            *)
(***************************************************************************)
Execute(kind, status) ==
    [kind |-> kind, status |-> status, attempts |-> 1, sleeps |-> <<>>,
     raised |-> ExecuteRaises(status)]

IsChannelAny(rid) == TRUE

\* rid.get("kind") == "youtube#channel"
IsChannel(rid) == rid.kind = "youtube#channel"

\* `returned` is what the caller gets from `return channel_ids`; an HttpError
\* leaves the function without it.

ListStart(listing) ==
    [listing |-> listing, channel_ids |-> <<>>, page_token |-> 0,
     requests |-> <<>>, status |-> 200, pc |-> "loop", returned |-> <<>>]

ListStep(l) ==
    LET resp == l.listing[IF l.page_token = 0 THEN 1 ELSE l.page_token]
        sent == [l EXCEPT !.requests = Append(@, l.page_token), !.status = resp.status]
        kept == SelectSeq(resp.items, IsChannel)
        ids == l.channel_ids \o [i \in 1..Len(kept) |-> kept[i].channelId]
    IN  IF ExecuteRaises(resp.status)
        THEN [sent EXCEPT !.pc = "HttpError"]
        ELSE [sent EXCEPT !.channel_ids = ids,
                          !.page_token = resp.next,
                          !.pc = IF NoToken(resp.next) THEN "done" ELSE "loop",
                          !.returned = IF NoToken(resp.next) THEN ids ELSE <<>>]

RECURSIVE ListRun(_)
ListRun(l) == IF l.pc = "loop" THEN ListRun(ListStep(l)) ELSE l

list_all_subscriptionsPartial(listing) ==
    LET l == ListRun(ListStart(listing))
    IN  [l EXCEPT !.pc = "done", !.returned = l.channel_ids]

list_all_subscriptions(listing) == ListRun(ListStart(listing))

(***************************************************************************)
(* The body of `for ch_id in channel_ids` (src/youtube_subs_daily.py:232-290).*)
(***************************************************************************)
\* `if vid not in seen_ids` (line 243)
IsFresh(vid, seen) == vid \notin seen

SkipItemUnlessDetailed(vid, details, seen) == vid \notin details

\* `if vid not in details or vid in seen_ids: continue` (line 254)
SkipItem(vid, details, seen) == vid \notin details \/ vid \in seen

MarkSeenNever(seen, vid) == seen

\* seen_ids.add(vid) (line 286)
MarkSeen(seen, vid) == seen \cup {vid}

\* The row built at lines 257-284; the columns copied unchanged from the
\* catalog (titles, description, statistics) are left out.
MakeRow(w, ch_id, vid) ==
    [video_id |-> vid, published |-> w.published[vid], channel_id |-> ch_id]

\* Lines 240-244, unfolded by halves like the loop below.
RECURSIVE FreshIds(_, _)
FreshIds(items, seen) ==
    IF items = <<>> THEN <<>>
    ELSE IF Len(items) = 1
    THEN IF IsFresh(items[1], seen) THEN items ELSE <<>>
    ELSE LET h == Len(items) \div 2 IN
         FreshIds(SubSeq(items, 1, h), seen) \o FreshIds(SubSeq(items, h + 1, Len(items)), seen)

RECURSIVE EmitRowsMarkingAll(_, _, _, _, _)
EmitRowsMarkingAll(w, ch_id, items, details, acc) ==
    IF items = <<>> THEN acc
    ELSE IF Len(items) = 1
    THEN LET vid == items[1] IN
         IF SkipItem(vid, details, acc.seen)
         THEN [acc EXCEPT !.seen = MarkSeen(@, vid)]
         ELSE [seen |-> MarkSeen(acc.seen, vid),
               rows |-> Append(acc.rows, MakeRow(w, ch_id, vid))]
    ELSE LET h == Len(items) \div 2 IN
         Once(EmitRowsMarkingAll(w, ch_id, SubSeq(items, 1, h), details, acc),
              LAMBDA a : EmitRowsMarkingAll(w, ch_id, SubSeq(items, h + 1, Len(items)),
                                            details, a))

\* Lines 252-286: acc = [seen, rows].  The loop runs over the items from left
\* to right; it is unfolded by halves (the first half, then the second on
\* what the first left) to keep the evaluation shallow on feeds of hundreds
\* of items.
RECURSIVE EmitRows(_, _, _, _, _)
EmitRows(w, ch_id, items, details, acc) ==
    IF items = <<>> THEN acc
    ELSE IF Len(items) = 1
    THEN LET vid == items[1] IN
         IF SkipItem(vid, details, acc.seen)
         THEN acc
         ELSE [seen |-> MarkSeen(acc.seen, vid),
               rows |-> Append(acc.rows, MakeRow(w, ch_id, vid))]
    ELSE LET h == Len(items) \div 2 IN
         Once(EmitRows(w, ch_id, SubSeq(items, 1, h), details, acc),
              LAMBDA a : EmitRows(w, ch_id, SubSeq(items, h + 1, Len(items)), details, a))

\* get_uploads_playlist_id (lines 135-140): "error" answers 503, "none" answers
\* an empty item list, "ok" names the uploads feed.
ResolveStatus(cw) == IF cw.resolve = "error" THEN 503 ELSE 200

LastStatusOf(r) == IF r.pc = "HttpError" THEN 503 ELSE 200

NotUploadsIdUnlessFeed(cw) == cw.resolve = "none" /\ cw.feed = <<>>

\* `if not uploads_id` (line 235): the lookup returned None because the
\* response held no item.
NotUploadsId(cw) == cw.resolve = "none"

\* One pass of the loop body: result [seen, rows, calls, outcome].
ProcessChannel(w, ch_id, seen, rows, pages) ==
    LET cw == w.chan[ch_id]
        c1 == Execute("channels.list", ResolveStatus(cw))
        same(cs, oc) == [seen |-> seen, rows |-> rows, calls |-> cs, outcome |-> oc]
    IN  IF c1.raised THEN same(<<c1>>, "HttpError")
        ELSE IF NotUploadsId(cw) THEN same(<<c1>>, "no_uploads")
        ELSE LET wk == fetch_playlist_items_pages(cw.feed, pages)
                 c2 == Execute("playlistItems.list", wk.status)
             IN  IF wk.pc = "HttpError" THEN same(<<c1, c2>>, "HttpError")
                 ELSE LET fresh_ids == FreshIds(wk.items, seen) IN
                      IF fresh_ids = <<>> THEN same(<<c1, c2>>, "no_fresh")
                      ELSE LET en == enrich_videos(w.catalog, fresh_ids)
                               c3 == Execute("videos.list", LastStatusOf(en))
                           IN  IF en.pc = "HttpError"
                               THEN same(<<c1, c2, c3>>, "HttpError")
                               ELSE LET acc == EmitRows(w, ch_id, wk.items, en.out,
                                                        [seen |-> seen, rows |-> rows])
                                    IN  [seen |-> acc.seen, rows |-> acc.rows,
                                         calls |-> <<c1, c2, c3>>, outcome |-> "ok"]

(***************************************************************************)
(* Files (src/youtube_subs_daily.py:81-89, 187-212).                       *)
(***************************************************************************)
HeaderRow == [video_id |-> 0, published |-> [form |-> "header", t |-> 0, off |-> 0],
              channel_id |-> 0]

NoFile == [exists |-> FALSE, lines |-> <<>>]

AppendCsvTruncating(file, write_header, rows) ==
    [exists |-> TRUE,
     lines |-> (IF write_header THEN <<HeaderRow>> ELSE <<>>) \o rows]

\* open(path, "a"); writeheader() if the file did not exist; writerow per row
AppendCsv(file, write_header, rows) ==
    [exists |-> TRUE,
     lines |-> file.lines \o (IF write_header THEN <<HeaderRow>> ELSE <<>>) \o rows]

\* write_csv (lines 187-212): nothing is touched for an empty list; the sort
\* precedes the opening of either file; the header flags are both computed
\* from exists() before either file is opened.
write_csv(day, all, rows) ==
    IF rows = <<>>
    THEN [pc |-> "returned", rows |-> rows, n |-> 0, day |-> day, all |-> all]
    ELSE IF SortRaises(rows)
    THEN [pc |-> "TypeError", rows |-> rows, n |-> 0, day |-> day, all |-> all]
    ELSE LET srt == SortedRows(rows)
             write_header_day == ~day.exists
             write_header_all == ~all.exists
         IN  [pc |-> "returned", rows |-> srt, n |-> Len(srt),
              day |-> AppendCsv(day, write_header_day, srt),
              all |-> AppendCsv(all, write_header_all, srt)]

NoStateFile == [exists |-> FALSE, seen_ids |-> <<>>, last_run_utc |-> 0]

read_stateEmpty(file) == [seen_ids |-> <<>>, last_run_utc |-> 0]

\* read_state: the file content, or the empty state when there is no file
\* (last_run_utc None is 0).
read_state(file) ==
    IF file.exists THEN [seen_ids |-> file.seen_ids, last_run_utc |-> file.last_run_utc]
    ELSE [seen_ids |-> <<>>, last_run_utc |-> 0]

LoadSeenEmpty(st) == {}

\* seen_ids = set(state.get("seen_ids", []))
LoadSeen(st) == Range(st.seen_ids)

\* write_state: open(STATE_FILE, "w") replaces the content.
write_state(st) == [exists |-> TRUE, seen_ids |-> st.seen_ids, last_run_utc |-> st.last_run_utc]

RECURSIVE sortedDescending(_)
sortedDescending(S) ==
    IF S = {} THEN <<>>
    ELSE LET m == CHOOSE x \in S : \A y \in S : x >= y IN <<m>> \o sortedDescending(S \ {m})

\* sorted(seen_ids)
RECURSIVE sorted(_)
sorted(S) ==
    IF S = {} THEN <<>>
    ELSE LET m == CHOOSE x \in S : \A y \in S : x <= y IN <<m>> \o sorted(S \ {m})

(***************************************************************************)
(* Catalog contents of the run model.                                      *)
(***************************************************************************)
Procs == 1..NumProcs

Ids == 1..MaxId

Channels == {1, 2}

DefaultPages == 5

PageOk(items, next) == [status |-> 200, items |-> items, next |-> next]

PageError == [status |-> 503, items |-> <<>>, next |-> 0]

ChannelEntry(c) == [kind |-> "youtube#channel", channelId |-> c]

OtherEntry == [kind |-> "youtube#playlist", channelId |-> 0]

Listings ==
    {<<PageOk(<<ChannelEntry(1)>>, 2), PageOk(<<OtherEntry, ChannelEntry(2)>>, 0)>>,
     <<PageOk(<<ChannelEntry(1)>>, 2), PageError>>}

\* Feeds of the run model: every page lists one video, the last page may be
\* an error instead, and a feed may be a single empty page.
FeedOfLength(len) ==
    {[k \in 1..len |-> IF k = len /\ ~lastOk THEN PageError
                       ELSE PageOk(<<f[k]>>, IF k < len THEN k + 1 ELSE 0)] :
        f \in [1..len -> Ids], lastOk \in BOOLEAN}

RunFeeds ==
    {<<PageOk(<<>>, 0)>>} \cup UNION {FeedOfLength(len) : len \in 1..MaxRunFeedPages}

\* A channel whose lookup answers no item may still have videos: the catalog
\* then holds a feed that the run has no name for.
ChannelWorlds ==
    {[resolve |-> "none", feed |-> <<>>], [resolve |-> "error", feed |-> <<>>],
     [resolve |-> "none", feed |-> <<PageOk(<<1>>, 0)>>]}
    \cup {[resolve |-> "ok", feed |-> f] : f \in RunFeeds}

\* Per video: its details are served ("Z": published with a UTC designator,
\* "naive": published without an offset), left out of the response, or the
\* lookup of a chunk holding it fails.
VideoKinds == {"Z", "naive", "missing", "poison"}

\* Newer videos have smaller ids here, so the sort has to reorder.
PublishedOf(kind, vid) ==
    IF kind = "naive" THEN [form |-> "naive", t |-> MaxId + 1 - vid, off |-> 0]
    ELSE [form |-> "Z", t |-> MaxId + 1 - vid, off |-> 0]

Worlds ==
    {[listing |-> l, chan |-> c,
      catalog |-> [missing |-> {v \in Ids : k[v] = "missing"},
                   poison |-> {v \in Ids : k[v] = "poison"}],
      published |-> [v \in Ids |-> PublishedOf(k[v], v)]] :
        l \in Listings, c \in [Channels -> ChannelWorlds], k \in [Ids -> VideoKinds]}

BlankWorld ==
    [listing |-> <<PageOk(<<>>, 0)>>,
     chan |-> [c \in Channels |-> [resolve |-> "none", feed |-> <<>>]],
     catalog |-> [missing |-> {}, poison |-> {}],
     published |-> [v \in Ids |-> PublishedOf("Z", v)]]

\* The run model at rest: no state file, no sinks, every process idle.
NoLocals ==
    /\ pc = [p \in Procs |-> "idle"]
    /\ state = [p \in Procs |-> read_state(NoStateFile)]
    /\ seen_ids = [p \in Procs |-> {}]
    /\ channel_ids = [p \in Procs |-> <<>>]
    /\ idx = [p \in Procs |-> 1]
    /\ new_rows = [p \in Procs |-> <<>>]
    /\ nRows = [p \in Procs |-> 0]
    /\ lastCalls = [p \in Procs |-> <<>>]
    /\ replay = [p \in Procs |-> FALSE]
    /\ stateWrites = [p \in Procs |-> 0]

RunIdle ==
    /\ world = BlankWorld
    /\ worldAge = "unknown"
    /\ stateFile = NoStateFile
    /\ alltime = NoFile
    /\ dayfile = NoFile
    /\ clock = 0
    /\ overlapped = FALSE
    /\ NoLocals

SorterIdle == [rows |-> <<>>, pc |-> "idle", out |-> <<>>]

NormIdle == [text |-> <<>>, pc |-> "idle", tier |-> "none", one_line |-> <<>>, points |-> <<>>]

SummIdle == [rows |-> <<>>, i |-> 1, items |-> <<>>, calls |-> <<>>, pc |-> "idle"]

ListerIdle == [listing |-> <<>>, channel_ids |-> <<>>, page_token |-> 0,
               requests |-> <<>>, status |-> 200, pc |-> "idle", returned |-> <<>>]

RetryIdle == [tries |-> 0, i |-> 0, backoff |-> InitialBackoff, sleeps |-> <<>>,
              statuses |-> <<>>, pc |-> "idle", returned |-> 0]

StageIdle ==
    /\ norm = NormIdle
    /\ summ = SummIdle
    /\ lister = ListerIdle
    /\ tretry = RetryIdle

PureIdle ==
    /\ retry = RetryIdle
    /\ sorter = SorterIdle
    /\ walk = WalkIdle
    /\ enrich = EnrichIdle

RetryInit ==
    /\ RunIdle
    /\ StageIdle
    /\ retry \in {RetryStart(t) : t \in 1..MaxTries}
    /\ sorter = SorterIdle
    /\ walk = WalkIdle
    /\ enrich = EnrichIdle

PostAttempt ==
    /\ retry.pc = "loop"
    /\ retry.i < retry.tries
    /\ \E s \in ResponseStatuses : retry' = RetryIteration(retry, s)
    /\ UNCHANGED <<sorter, walk, enrich, stageVars>>
    /\ UNCHANGED runVars

SpecRetryNext == PostAttempt

SpecRetry == RetryInit /\ [][SpecRetryNext]_vars

LastStatus == retry.statuses[Len(retry.statuses)]

\* C4: the k-th sleep lasts min(2 * 2^(k-1), 60) seconds and one sleep separates
\* consecutive attempts; with the default five tries, 503 x4 then 200 sleeps
\* 2, 4, 8, 16 and returns the fifth response, and 503 x5 raises after the same
\* four sleeps, with no fifth sleep and no sixth request.
BackoffSequence ==
    /\ \A k \in 1..Len(retry.sleeps) :
           retry.sleeps[k] = Min(2 * Pow2(k - 1), 60)
    /\ retry.pc = "loop" => Len(retry.sleeps) = Len(retry.statuses)
    /\ retry.pc \in {"returned", "raised"} =>
           Len(retry.sleeps) = Len(retry.statuses) - 1
    /\ (retry.tries = DefaultTries /\ retry.statuses = <<503, 503, 503, 503, 200>>) =>
           /\ retry.sleeps = <<2, 4, 8, 16>>
           /\ retry.pc = "returned"
           /\ retry.returned = 200
    /\ (retry.tries = DefaultTries /\ retry.statuses = <<503, 503, 503, 503, 503>>) =>
           /\ retry.sleeps = <<2, 4, 8, 16>>
           /\ retry.pc = "raised"
    /\ retry.tries = DefaultTries => Len(retry.statuses) <= 5

BackoffSequenceWitness ==
    /\ retry.tries = DefaultTries
    /\ retry.statuses = <<503, 503, 503, 503, 200>>
    /\ retry.pc = "returned"

\* C5: with the default five tries the executor issues at most five requests and
\* ends by returning or raising (never by falling out of the loop); a returned
\* response is never transient, and a transient fifth response raises.
BoundedRetry ==
    retry.tries = DefaultTries =>
        /\ Len(retry.statuses) <= 5
        /\ retry.pc \in {"loop", "returned", "raised"}
        /\ retry.pc = "loop" => Len(retry.statuses) < 5
        /\ retry.pc = "returned" =>
               /\ retry.returned \notin {429, 500, 502, 503, 504}
               /\ retry.returned = LastStatus
        /\ (Len(retry.statuses) = 5 /\ LastStatus \in {429, 500, 502, 503, 504}) =>
               retry.pc = "raised"

BoundedRetryWitness ==
    /\ retry.tries = DefaultTries
    /\ Len(retry.statuses) = 5
    /\ LastStatus = 504
    /\ retry.pc = "raised"

\* C6: a response that is neither 2xx nor one of 429/500/502/503/504 makes the
\* executor raise on that attempt, without a sleep for it and without another
\* request; only a 2xx response is ever returned.
PermanentNotRetried ==
    /\ (/\ Len(retry.statuses) > 0
        /\ ~(LastStatus >= 200 /\ LastStatus < 300)
        /\ LastStatus \notin {429, 500, 502, 503, 504}) =>
           /\ retry.pc = "raised"
           /\ Len(retry.sleeps) = Len(retry.statuses) - 1
    /\ retry.pc = "returned" => (retry.returned >= 200 /\ retry.returned < 300)

(***************************************************************************)
(* The sort of write_csv as its own specification.                         *)
(***************************************************************************)
SortInit ==
    /\ RunIdle
    /\ StageIdle
    /\ retry = RetryIdle
    /\ walk = WalkIdle
    /\ enrich = EnrichIdle
    /\ sorter \in {[rows |-> rs, pc |-> "start", out |-> <<>>] : rs \in SortInputs}

SortRows ==
    /\ sorter.pc = "start"
    /\ sorter' = IF SortRaises(sorter.rows)
                 THEN [sorter EXCEPT !.pc = "TypeError"]
                 ELSE [sorter EXCEPT !.pc = "sorted", !.out = SortedRows(sorter.rows)]
    /\ UNCHANGED <<retry, walk, enrich, stageVars>>
    /\ UNCHANGED runVars

SpecSortNext == SortRows

SpecSort == SortInit /\ [][SpecSortNext]_vars

IsPermutation(out, in) ==
    /\ Len(out) = Len(in)
    /\ \A r \in Range(in) :
           Cardinality({i \in 1..Len(in) : in[i] = r}) =
           Cardinality({i \in 1..Len(out) : out[i] = r})

Parsable(ts) == ts.form \in {"Z", "offset", "naive"}

\* C10: whatever rows are handed over, the sort completes, its output is the
\* input in ascending order of the parsed `published` with ties in input order,
\* and every row with an unparsable timestamp precedes every parsable one.
WriteOrdering ==
    sorter.pc # "start" =>
        /\ sorter.pc = "sorted"
        /\ IsPermutation(sorter.out, sorter.rows)
        /\ \A i, j \in 1..Len(sorter.out) :
               i < j =>
                   /\ ~KeyLess(parse_iso_dt(sorter.out[j].published),
                               parse_iso_dt(sorter.out[i].published))
                   /\ (~Parsable(sorter.out[j].published)
                           => ~Parsable(sorter.out[i].published))

(***************************************************************************)
(* The feed walk as its own specification.                                 *)
(***************************************************************************)
WalkInit ==
    /\ RunIdle
    /\ StageIdle
    /\ retry = RetryIdle
    /\ sorter = SorterIdle
    /\ enrich = EnrichIdle
    /\ walk \in {WalkStart(f, MainPages(a)) : f \in WalkFeeds, a \in 0..MaxBudget}

WalkPage ==
    /\ walk.pc = "loop"
    /\ walk' = WalkStep(walk)
    /\ UNCHANGED <<retry, sorter, enrich, stageVars>>
    /\ UNCHANGED runVars

SpecWalkNext == WalkPage

SpecWalk == WalkInit /\ [][SpecWalkNext]_vars

\* C8: a walk with page budget N issues at most N page requests and collects at
\* most 50*N stubs; no request follows a response without a continuation token,
\* so a tokenless k-th response (k < N) ends the walk after exactly k requests;
\* the first request carries no token and each later one carries the token of
\* the response before it.
PaginationBound ==
    /\ Len(walk.requests) <= walk.pages
    /\ Len(walk.items) <= 50 * walk.pages
    /\ \A k \in 1..Len(walk.requests) :
           walk.requests[k] = IF k = 1 THEN 0 ELSE walk.replies[k - 1]
    /\ \A k \in 1..Len(walk.replies) :
           (k < walk.pages /\ walk.replies[k] = 0) =>
               /\ Len(walk.requests) = k
               /\ walk.pc = "done"
    /\ walk.pc = "loop" =>
           /\ Len(walk.requests) < walk.pages
           /\ Len(walk.replies) = Len(walk.requests)

PaginationBoundWitness ==
    /\ walk.pc = "done"
    /\ walk.pages = 3
    /\ Len(walk.requests) = 2
    /\ walk.replies = <<2, 0>>
    /\ Len(walk.items) = 100

(***************************************************************************)
(* The batched enrichment as its own specification.                        *)
(***************************************************************************)
EnrichInit ==
    /\ RunIdle
    /\ StageIdle
    /\ retry = RetryIdle
    /\ sorter = SorterIdle
    /\ walk = WalkIdle
    /\ enrich \in {EnrichStart(c, [i \in 1..n |-> i]) :
                      c \in EnrichCatalogs, n \in 0..MaxVideoIds}

EnrichChunk ==
    /\ enrich.pc = "loop"
    /\ enrich' = EnrichStep(enrich)
    /\ UNCHANGED <<retry, sorter, walk, stageVars>>
    /\ UNCHANGED runVars

SpecEnrichNext == EnrichChunk

SpecEnrich == EnrichInit /\ [][SpecEnrichNext]_vars

RECURSIVE Flatten(_)
Flatten(ss) == IF ss = <<>> THEN <<>> ELSE Flatten(SubSeq(ss, 1, Len(ss) - 1)) \o ss[Len(ss)]

RECURSIVE UnionAll(_)
UnionAll(ss) == IF ss = <<>> THEN {} ELSE UnionAll(SubSeq(ss, 1, Len(ss) - 1)) \cup ss[Len(ss)]

\* C9: the batched calls are consecutive slices of the input, each of 1..50 ids
\* and every one but the last of exactly 50; a finished enrichment of n ids has
\* issued ceil(n/50) calls whose concatenation is the input (50, 50, 20 for
\* n = 120, none for n = 0); the result holds exactly the ids the responses
\* returned, and an id missing from a response raises no error.
ChunkedEnrichment ==
    LET n == Len(enrich.video_ids)
        sent == Flatten(enrich.calls)
    IN  /\ sent = SubSeq(enrich.video_ids, 1, Len(sent))
        /\ \A k \in 1..Len(enrich.calls) :
               /\ Len(enrich.calls[k]) >= 1
               /\ Len(enrich.calls[k]) <= 50
               /\ k < Len(enrich.calls) => Len(enrich.calls[k]) = 50
        /\ enrich.out = UnionAll(enrich.replies)
        /\ enrich.pc = "done" =>
               /\ Len(enrich.calls) = (n + 49) \div 50
               /\ sent = enrich.video_ids
               /\ n = 120 => [k \in 1..3 |-> Len(enrich.calls[k])] = <<50, 50, 20>>
               /\ n = 0 => enrich.calls = <<>>
               /\ enrich.out = Range(enrich.video_ids) \ enrich.catalog.missing
        /\ enrich.pc = "HttpError" =>
               Range(enrich.calls[Len(enrich.calls)]) \cap enrich.catalog.poison # {}

ChunkedEnrichmentWitness ==
    /\ enrich.pc = "done"
    /\ Len(enrich.video_ids) = 120
    /\ Len(enrich.calls) = 3
    /\ enrich.catalog.missing = {50, 51}
    /\ enrich.out = (1..120) \ {50, 51}

(***************************************************************************)
(* The ingestion run (src/youtube_subs_daily.py:215-301) with serialized   *)
(* runs: a run starts only when no other run is in progress.               *)
(***************************************************************************)
Init ==
    /\ retry = RetryIdle
    /\ sorter = SorterIdle
    /\ walk = WalkIdle
    /\ enrich = EnrichIdle
    /\ RunIdle
    /\ StageIdle

AllIdle == \A q \in Procs : pc[q] = "idle"

\* The catalog contents change between two runs.
FeedsChange ==
    /\ AllIdle
    /\ worldAge # "unknown"
    /\ world' = BlankWorld
    /\ worldAge' = "unknown"
    /\ UNCHANGED <<overlapped, fileVars, clock, procVars, pureVars>>

\* The local date changes: updates_<today>.csv is a new file.  write_csv is
\* the only reader of the date, so a change during a run is a change before or
\* after it.
DayPasses ==
    /\ AllIdle
    /\ dayfile.exists
    /\ dayfile' = NoFile
    /\ UNCHANGED <<overlapped, world, worldAge, stateFile, alltime, clock, procVars, pureVars>>

\* Lines 216-217; the contents the run is going to see are fixed here.
\* Serialized runs do not differ by the process that executes them, so the
\* lowest-numbered process does.
Start(p) ==
    /\ AllIdle
    /\ \A q \in Procs : p <= q
    /\ clock < MaxRuns
    /\ clock' = clock + 1
    /\ IF worldAge = "unknown"
       THEN world' \in Worlds /\ worldAge' = "new"
       ELSE UNCHANGED <<world, worldAge>>
    /\ state' = [state EXCEPT ![p] = read_state(stateFile)]
    /\ seen_ids' = [seen_ids EXCEPT ![p] = LoadSeen(read_state(stateFile))]
    /\ replay' = [replay EXCEPT ![p] = (worldAge = "ran")]
    /\ pc' = [pc EXCEPT ![p] = "list_subs"]
    /\ UNCHANGED <<overlapped, fileVars, channel_ids, idx, new_rows, nRows, lastCalls, stateWrites,
                   pureVars>>

\* Lines 222-229.
ListSubs(p) ==
    /\ pc[p] = "list_subs"
    /\ LET r == list_all_subscriptions(world.listing) IN
       /\ lastCalls' = [lastCalls EXCEPT ![p] = <<Execute("subscriptions.list", r.status)>>]
       /\ IF r.pc = "HttpError"
          THEN /\ pc' = [pc EXCEPT ![p] = "exit"]
               /\ UNCHANGED <<channel_ids, idx, new_rows>>
          ELSE /\ channel_ids' = [channel_ids EXCEPT ![p] = r.returned]
               /\ new_rows' = [new_rows EXCEPT ![p] = <<>>]
               /\ idx' = [idx EXCEPT ![p] = 1]
               /\ pc' = [pc EXCEPT ![p] =
                            IF r.returned = <<>> THEN "write_csv" ELSE "channels"]
    /\ UNCHANGED <<overlapped, world, worldAge, fileVars, clock, state, seen_ids, nRows, replay,
                   stateWrites, pureVars>>

\* Lines 232-290, one channel.
Channel(p) ==
    /\ pc[p] = "channels"
    /\ LET r == ProcessChannel(world, channel_ids[p][idx[p]], seen_ids[p], new_rows[p],
                               DefaultPages)
       IN  /\ seen_ids' = [seen_ids EXCEPT ![p] = r.seen]
           /\ new_rows' = [new_rows EXCEPT ![p] = r.rows]
           /\ lastCalls' = [lastCalls EXCEPT ![p] = r.calls]
    /\ idx' = [idx EXCEPT ![p] = idx[p] + 1]
    /\ pc' = [pc EXCEPT ![p] =
                 IF idx[p] + 1 > Len(channel_ids[p]) THEN "write_csv" ELSE "channels"]
    /\ UNCHANGED <<overlapped, world, worldAge, fileVars, clock, state, channel_ids, nRows, replay,
                   stateWrites, pureVars>>

\* Line 293, write_csv (lines 187-212).
WriteCsv(p) ==
    /\ pc[p] = "write_csv"
    /\ LET r == write_csv(dayfile, alltime, new_rows[p]) IN
       /\ new_rows' = [new_rows EXCEPT ![p] = r.rows]
       /\ dayfile' = r.day
       /\ alltime' = r.all
       /\ nRows' = [nRows EXCEPT ![p] = r.n]
       /\ pc' = [pc EXCEPT ![p] = IF r.pc = "TypeError" THEN "TypeError" ELSE "write_state"]
    /\ UNCHANGED <<overlapped, world, worldAge, stateFile, clock, state, seen_ids, channel_ids, idx,
                   lastCalls, replay, stateWrites, pureVars>>

\* Lines 299-301.
WriteState(p) ==
    /\ pc[p] = "write_state"
    /\ LET st == [seen_ids |-> sorted(seen_ids[p]), last_run_utc |-> clock] IN
       /\ state' = [state EXCEPT ![p] = st]
       /\ stateFile' = write_state(st)
    /\ stateWrites' = [stateWrites EXCEPT ![p] = @ + 1]
    /\ worldAge' = "ran"
    /\ pc' = [pc EXCEPT ![p] = "done"]
    /\ UNCHANGED <<overlapped, world, alltime, dayfile, clock, seen_ids, channel_ids, idx, new_rows,
                   nRows, lastCalls, replay, pureVars>>

\* The process ends: run() returned, sys.exit(1) was called, or an exception
\* went uncaught.
Exit(p) ==
    /\ pc[p] \in {"done", "exit", "TypeError"}
    /\ pc' = [pc EXCEPT ![p] = "idle"]
    /\ state' = [state EXCEPT ![p] = read_state(NoStateFile)]
    /\ seen_ids' = [seen_ids EXCEPT ![p] = {}]
    /\ channel_ids' = [channel_ids EXCEPT ![p] = <<>>]
    /\ idx' = [idx EXCEPT ![p] = 1]
    /\ new_rows' = [new_rows EXCEPT ![p] = <<>>]
    /\ nRows' = [nRows EXCEPT ![p] = 0]
    /\ lastCalls' = [lastCalls EXCEPT ![p] = <<>>]
    /\ replay' = [replay EXCEPT ![p] = FALSE]
    /\ stateWrites' = [stateWrites EXCEPT ![p] = 0]
    /\ UNCHANGED <<overlapped, world, worldAge, fileVars, clock, pureVars>>

Next ==
    \/ FeedsChange
    \/ DayPasses
    \/ \E p \in Procs : Start(p)
    \/ \E p \in Procs : ListSubs(p)
    \/ \E p \in Procs : Channel(p)
    \/ \E p \in Procs : WriteCsv(p)
    \/ \E p \in Procs : WriteState(p)
    \/ \E p \in Procs : Exit(p)

Spec == Init /\ [][Next]_vars

DataRows(file) == SelectSeq(file.lines, LAMBDA r : r.video_id # 0)

FeedItems(cw) ==
    IF cw.resolve = "ok" THEN Flatten([k \in 1..Len(cw.feed) |-> cw.feed[k].items]) ELSE <<>>

\* C1: a run that starts on catalog contents over which a run has already
\* completed, and loads the state that run persisted, collects no row and
\* appends none: its row count is 0 and it never reaches the failing sort.
IdempotentRerun ==
    \A p \in Procs :
        replay[p] =>
            /\ new_rows[p] = <<>>
            /\ nRows[p] = 0
            /\ pc[p] # "TypeError"

IdempotentRerunWitness ==
    \E p \in Procs :
        /\ replay[p]
        /\ pc[p] = "done"
        /\ Len(DataRows(alltime)) = 2
        /\ world.catalog.missing = {}
        /\ world.catalog.poison = {}

\* C2: no video_id occurs in two data rows of the all-time sink.
NoDuplicateEmission ==
    \A i, j \in 1..Len(alltime.lines) :
        (i # j /\ alltime.lines[i].video_id # 0) =>
            alltime.lines[i].video_id # alltime.lines[j].video_id

\* Video 1 is listed by both channels, twice by the first, and is in the sink
\* after the second run.
NoDuplicateEmissionWitness ==
    \E p \in Procs :
        /\ pc[p] = "done"
        /\ clock = 2
        /\ FeedItems(world.chan[1]) = <<1, 1>>
        /\ FeedItems(world.chan[2]) = <<2, 1>>
        /\ Range(stateFile.seen_ids) = {1, 2}
        /\ {r.video_id : r \in Range(DataRows(alltime))} = {1, 2}

\* C3: every step leaves the persisted seen_ids a superset of what it was.
SeenOnlyGrows ==
    [][Range(stateFile.seen_ids) \subseteq Range(stateFile'.seen_ids)]_vars

\* A run that loaded a non-empty state has persisted a larger one.
SeenOnlyGrowsWitness ==
    \E p \in Procs :
        /\ pc[p] = "done"
        /\ clock = 2
        /\ Len(stateFile.seen_ids) = 2
        /\ nRows[p] = 1

\* C7: a catalog call answered with a transient status sleeps 2 seconds and is
\* tried again, and raises only after the fifth attempt.
CatalogCallsRetried ==
    \A p \in Procs : \A k \in 1..Len(lastCalls[p]) :
        lastCalls[p][k].status \in {429, 500, 502, 503, 504} =>
            /\ lastCalls[p][k].attempts > 1
            /\ lastCalls[p][k].sleeps # <<>>
            /\ lastCalls[p][k].raised => lastCalls[p][k].attempts = 5

SomePageFails(listing) == \E k \in 1..Len(listing) : listing[k].status # 200

\* C12: while a run is in progress over a listing one of whose pages fails, no
\* step changes the state file or either sink; the run goes from the listing
\* straight to its exit, without a write of the state file.
EnumerationFailureAborts ==
    [][SomePageFails(world'.listing) =>
           /\ (\E p \in Procs : pc[p] # "idle" \/ pc'[p] # "idle") =>
                  UNCHANGED <<stateFile, alltime, dayfile>>
           /\ \A p \in Procs :
                  pc'[p] \notin {"idle", "list_subs"} =>
                      pc'[p] = "exit" /\ stateWrites'[p] = 0 /\ new_rows'[p] = <<>>]_vars

\* An earlier run has persisted state and rows; the run after it fails to list.
EnumerationFailureAbortsWitness ==
    \E p \in Procs :
        /\ pc[p] = "exit"
        /\ SomePageFails(world.listing)
        /\ clock = 2
        /\ Len(stateFile.seen_ids) = 2
        /\ stateFile.last_run_utc = 1
        /\ Len(DataRows(alltime)) = 2

SourceFails(cw) ==
    \/ cw.resolve = "error"
    \/ cw.resolve = "ok" /\ \E k \in 1..Len(cw.feed) : cw.feed[k].status # 200

\* C13: a run in which a source failed has gone through every source of the
\* listing, does not die before its state write, and when it is done its rows
\* are in the all-time sink and their identifiers in the persisted state.
PerSourceIsolation ==
    \A p \in Procs :
        (/\ pc[p] \in {"write_csv", "write_state", "done", "TypeError"}
         /\ \E k \in 1..Len(channel_ids[p]) : SourceFails(world.chan[channel_ids[p][k]])) =>
            /\ idx[p] = Len(channel_ids[p]) + 1
            /\ pc[p] # "TypeError"
            /\ pc[p] = "done" =>
                   \A k \in 1..Len(new_rows[p]) :
                       /\ new_rows[p][k] \in Range(alltime.lines)
                       /\ new_rows[p][k].video_id \in Range(stateFile.seen_ids)
                       /\ ~SourceFails(world.chan[new_rows[p][k].channel_id])

\* C21: the pass of the loop over a source whose lookup answers no item issues
\* the lookup and no other catalog call, raises nothing, leaves the collected
\* rows and the seen identifiers as they were, and the run goes on to the next
\* source, or to the append when this was the last one.
UnresolvableSkipped ==
    [][\A p \in Procs :
         (/\ pc[p] = "channels"
          /\ idx'[p] = idx[p] + 1
          /\ world.chan[channel_ids[p][idx[p]]].resolve = "none") =>
             /\ Len(lastCalls'[p]) = 1
             /\ lastCalls'[p][1].kind = "channels.list"
             /\ ~lastCalls'[p][1].raised
             /\ new_rows'[p] = new_rows[p]
             /\ seen_ids'[p] = seen_ids[p]
             /\ pc'[p] = IF idx[p] < Len(channel_ids[p]) THEN "channels" ELSE "write_csv"]_vars

\* The first source has videos but no discoverable feed; the run has its two
\* rows from the second source.
UnresolvableSkippedWitness ==
    \E p \in Procs :
        /\ pc[p] = "done"
        /\ channel_ids[p] = <<1, 2>>
        /\ world.chan[1].resolve = "none"
        /\ world.chan[1].feed # <<>>
        /\ Len(new_rows[p]) = 2
        /\ \A k \in 1..2 : new_rows[p][k].channel_id = 2
        /\ Len(DataRows(alltime)) = 2

RowIds(rows) == {rows[k].video_id : k \in 1..Len(rows)}

\* C24: the state write of a run persists exactly the identifiers the run
\* loaded together with those of the rows it handed to write_csv, none of
\* which it had loaded, and all of which are in the all-time sink; an
\* identifier the run had not loaded and whose details the catalog leaves out
\* is in no row and is not persisted.
EmittedEqualsNewlySeen ==
    [][\A p \in Procs :
         (pc[p] = "write_state" /\ pc'[p] = "done") =>
             LET loaded == LoadSeen(state[p])
                 emitted == RowIds(new_rows[p])
                 persisted == Range(stateFile'.seen_ids)
             IN  /\ persisted = loaded \cup emitted
                 /\ loaded \cap emitted = {}
                 /\ Len(new_rows[p]) = Cardinality(emitted)
                 /\ emitted \subseteq RowIds(DataRows(alltime))
                 /\ \A v \in world.catalog.missing \ loaded :
                        v \notin emitted /\ v \notin persisted]_vars

\* Two runs over a feed that lists video 1, whose details the catalog leaves
\* out, and video 2: the second run finds video 1 still unseen.
EmittedEqualsNewlySeenWitness ==
    \E p \in Procs :
        /\ pc[p] = "done"
        /\ clock = 2
        /\ replay[p]
        /\ world.catalog.missing = {1}
        /\ FeedItems(world.chan[1]) = <<1, 2>>
        /\ stateFile.seen_ids = <<2>>
        /\ RowIds(DataRows(alltime)) = {2}
        /\ lastCalls[p][Len(lastCalls[p])].kind = "videos.list"

\* C15: a run writes the state file at most once and not before it is past the
\* sink append; when it is done it has written once (with zero new rows too)
\* and the file holds exactly the run's identifiers and the run's time, in
\* place of what it held; the persisted list is strictly ascending; a run that
\* aborted has not written.
StatePersistence ==
    /\ \A i, j \in 1..Len(stateFile.seen_ids) :
           i < j => stateFile.seen_ids[i] < stateFile.seen_ids[j]
    /\ \A p \in Procs :
           /\ stateWrites[p] <= 1
           /\ pc[p] \in {"list_subs", "channels", "write_csv", "write_state"} =>
                  stateWrites[p] = 0
           /\ pc[p] \in {"exit", "TypeError"} => stateWrites[p] = 0
           /\ pc[p] = "done" =>
                  /\ stateWrites[p] = 1
                  /\ stateFile.exists
                  /\ Range(stateFile.seen_ids) = seen_ids[p]
                  /\ Len(stateFile.seen_ids) = Cardinality(seen_ids[p])
                  /\ stateFile.last_run_utc = clock
                  /\ \A k \in 1..Len(new_rows[p]) : new_rows[p][k] \in Range(alltime.lines)

\* The second run has no new record and replaces a state file of two
\* identifiers.
StatePersistenceWitness ==
    \E p \in Procs :
        /\ pc[p] = "done"
        /\ clock = 2
        /\ nRows[p] = 0
        /\ stateWrites[p] = 1
        /\ stateFile.seen_ids = <<1, 2>>
        /\ stateFile.last_run_utc = 2

(***************************************************************************)
(* The ingestion run with crashes: the process may die at any position of  *)
(* run().  A crash between write_csv and write_state leaves the sinks      *)
(* written and state.json as it was; worldAge records it as "crashed".     *)
(***************************************************************************)
Crash(p) ==
    /\ pc[p] \in {"list_subs", "channels", "write_csv", "write_state"}
    /\ worldAge' = IF pc[p] = "write_state" /\ nRows[p] > 0 THEN "crashed" ELSE worldAge
    /\ pc' = [pc EXCEPT ![p] = "idle"]
    /\ state' = [state EXCEPT ![p] = read_state(NoStateFile)]
    /\ seen_ids' = [seen_ids EXCEPT ![p] = {}]
    /\ channel_ids' = [channel_ids EXCEPT ![p] = <<>>]
    /\ idx' = [idx EXCEPT ![p] = 1]
    /\ new_rows' = [new_rows EXCEPT ![p] = <<>>]
    /\ nRows' = [nRows EXCEPT ![p] = 0]
    /\ lastCalls' = [lastCalls EXCEPT ![p] = <<>>]
    /\ replay' = [replay EXCEPT ![p] = FALSE]
    /\ stateWrites' = [stateWrites EXCEPT ![p] = 0]
    /\ UNCHANGED <<overlapped, world, fileVars, clock, pureVars>>

SpecCrashNext == Next \/ \E p \in Procs : Crash(p)

SpecCrash == Init /\ [][SpecCrashNext]_vars

\* C14: the append precedes the state write, so after a crash between the two
\* the run that follows over the same contents is not stopped by the sort and,
\* once past its own append, has appended the very rows the crashed run had
\* appended: the all-time sink ends with these rows twice in a row, and their
\* identifiers are not in the persisted state.
CrashReemits ==
    \A p \in Procs :
        worldAge = "crashed" =>
            /\ pc[p] # "TypeError"
            /\ pc[p] = "write_state" =>
                   LET rows == new_rows[p]
                       n == Len(rows)
                       last == Len(alltime.lines)
                   IN  /\ n > 0
                       /\ nRows[p] = n
                       /\ last >= 2 * n
                       /\ SubSeq(alltime.lines, last - n + 1, last) = rows
                       /\ SubSeq(alltime.lines, last - 2 * n + 1, last - n) = rows
                       /\ \A k \in 1..n : rows[k].video_id \notin Range(stateFile.seen_ids)

\* The first run appended two rows and crashed; the second has appended them
\* again.
CrashReemitsWitness ==
    \E p \in Procs :
        /\ worldAge = "crashed"
        /\ pc[p] = "write_state"
        /\ Len(new_rows[p]) = 2
        /\ Len(DataRows(alltime)) = 4
        /\ ~stateFile.exists

(***************************************************************************)
(* The ingestion run without serialization: run() takes no lock, so a      *)
(* second process may start at any position of the first.  Catalog calls   *)
(* fail per call here: a channel lookup may be answered with 503 for one   *)
(* process and served for the other.                                       *)
(***************************************************************************)
\* Contents of the overlap model: both channels resolve and list one video on
\* a single page; details are served or left out.
OverlapWorlds ==
    {w \in Worlds :
        /\ w.listing = <<PageOk(<<ChannelEntry(1)>>, 2),
                         PageOk(<<OtherEntry, ChannelEntry(2)>>, 0)>>
        /\ \A c \in Channels :
               /\ w.chan[c].resolve = "ok"
               /\ Len(w.chan[c].feed) = 1
               /\ w.chan[c].feed[1].status = 200
        /\ w.catalog.poison = {}
        /\ \A v \in Ids : w.published[v].form = "Z"}

\* A run in progress that has not finished its work.
Running(q) == pc[q] \in {"list_subs", "channels", "write_csv", "write_state"}

\* Lines 216-217 in a process of its own: nothing in run() waits for another
\* process.
OverlapStart(p) ==
    /\ pc[p] = "idle"
    /\ clock < MaxRuns
    /\ clock' = clock + 1
    /\ IF worldAge = "unknown"
       THEN world' \in OverlapWorlds /\ worldAge' = "new"
       ELSE UNCHANGED <<world, worldAge>>
    /\ state' = [state EXCEPT ![p] = read_state(stateFile)]
    /\ seen_ids' = [seen_ids EXCEPT ![p] = LoadSeen(read_state(stateFile))]
    /\ replay' = [replay EXCEPT ![p] = (worldAge = "ran")]
    /\ pc' = [pc EXCEPT ![p] = "list_subs"]
    /\ overlapped' = (overlapped \/ \E q \in Procs \ {p} : Running(q))
    /\ UNCHANGED <<fileVars, channel_ids, idx, new_rows, nRows, lastCalls, stateWrites,
                   pureVars>>

\* Lines 232-290 for one channel whose lookup is answered with 503 this time:
\* the HttpError is caught at line 288 and the channel is skipped.
ChannelOutage(p) ==
    /\ pc[p] = "channels"
    /\ LET ch_id == channel_ids[p][idx[p]]
           down == [world EXCEPT !.chan[ch_id].resolve = "error"]
           r == ProcessChannel(down, ch_id, seen_ids[p], new_rows[p], DefaultPages)
       IN  /\ seen_ids' = [seen_ids EXCEPT ![p] = r.seen]
           /\ new_rows' = [new_rows EXCEPT ![p] = r.rows]
           /\ lastCalls' = [lastCalls EXCEPT ![p] = r.calls]
    /\ idx' = [idx EXCEPT ![p] = idx[p] + 1]
    /\ pc' = [pc EXCEPT ![p] =
                 IF idx[p] + 1 > Len(channel_ids[p]) THEN "write_csv" ELSE "channels"]
    /\ UNCHANGED <<overlapped, world, worldAge, fileVars, clock, state, channel_ids, nRows,
                   replay, stateWrites, pureVars>>

SpecOverlapNext ==
    \/ \E p \in Procs : OverlapStart(p)
    \/ \E p \in Procs : ListSubs(p)
    \/ \E p \in Procs : Channel(p)
    \/ \E p \in Procs : ChannelOutage(p)
    \/ \E p \in Procs : WriteCsv(p)
    \/ \E p \in Procs : WriteState(p)
    \/ \E p \in Procs : Exit(p)

SpecOverlap == Init /\ [][SpecOverlapNext]_vars

SinkIds(file) == {r.video_id : r \in Range(DataRows(file))}

\* The append of process p puts an identifier into the all-time sink that the
\* sink already holds.
AppendsTwice(p) ==
    /\ pc[p] = "write_csv"
    /\ pc'[p] = "write_state"
    /\ \E k \in 1..Len(new_rows'[p]) : new_rows'[p][k].video_id \in SinkIds(alltime)

\* The state write of process p drops an identifier the state file holds.
DiscardsIds(p) ==
    /\ pc[p] = "write_state"
    /\ pc'[p] = "done"
    /\ ~(Range(stateFile.seen_ids) \subseteq Range(stateFile'.seen_ids))

\* C22: as long as every run has loaded the state with no other run in
\* progress, no append puts an identifier into the all-time sink a second time
\* and no state write drops a persisted identifier; both happen once runs have
\* interleaved (the witness).
OverlapUnsafeSerialSafe ==
    [][\A p \in Procs : (AppendsTwice(p) \/ DiscardsIds(p)) => overlapped']_vars

\* Both runs loaded the empty state; the first appended and persisted videos
\* 1 and 2, the second was refused channel 2, appended video 1 again and
\* persisted it alone.
OverlapUnsafeSerialSafeWitness ==
    /\ overlapped
    /\ \A p \in Procs : pc[p] = "done"
    /\ \E p \in Procs : state[p].seen_ids = <<1, 2>>
    /\ stateFile.seen_ids = <<1>>
    /\ Len(DataRows(alltime)) = 3
    /\ SinkIds(alltime) = {1, 2}

(***************************************************************************)
(* write_csv over sinks in any condition a file system can hold them in:   *)
(* absent, present and empty (created by a touch, or by an append that     *)
(* died before its first write), or written by earlier calls.              *)
(***************************************************************************)
SinkRow(v) == [video_id |-> v, published |-> PublishedOf("Z", v), channel_id |-> 1]

SinkInputs ==
    {<<>>} \cup {<<SinkRow(v)>> : v \in Ids} \cup {<<SinkRow(v), SinkRow(w)>> : v, w \in Ids}

EmptyFile == [exists |-> TRUE, lines |-> <<>>]

SinkFiles == {NoFile, EmptyFile}

SinkInit ==
    /\ retry = RetryIdle
    /\ sorter = SorterIdle
    /\ walk = WalkIdle
    /\ enrich = EnrichIdle
    /\ world = BlankWorld
    /\ worldAge = "unknown"
    /\ stateFile = NoStateFile
    /\ clock = 0
    /\ overlapped = FALSE
    /\ NoLocals
    /\ StageIdle
    /\ alltime \in SinkFiles
    /\ dayfile \in SinkFiles

\* One call of write_csv.
SinkAppend ==
    \E rows \in SinkInputs :
        /\ Len(alltime.lines) + Len(rows) < MaxSinkLines
        /\ LET r == write_csv(dayfile, alltime, rows) IN
           /\ dayfile' = r.day
           /\ alltime' = r.all
        /\ UNCHANGED <<overlapped, world, worldAge, stateFile, clock, procVars, pureVars>>

\* The local date changes between two calls.
SinkNewDay ==
    /\ dayfile.exists
    /\ dayfile' \in SinkFiles
    /\ UNCHANGED <<overlapped, world, worldAge, stateFile, alltime, clock, procVars, pureVars>>

SpecSinkNext == SinkAppend \/ SinkNewDay

SpecSink == SinkInit /\ [][SpecSinkNext]_vars

HeaderCount(file) == Cardinality({i \in 1..Len(file.lines) : file.lines[i] = HeaderRow})

\* C11: a call that writes to a sink leaves it with exactly one header row,
\* as its first row, whenever it holds a data row; and the call writes a header
\* to the sink if and only if the sink held none before, a sink that exists
\* but is empty included.
HeaderOnce ==
    [][\A sink \in {<<dayfile, dayfile'>>, <<alltime, alltime'>>} :
           (sink[2] # sink[1] /\ sink[2].exists /\ Len(sink[2].lines) > Len(sink[1].lines)) =>
               /\ DataRows(sink[2]) # <<>> =>
                      /\ HeaderCount(sink[2]) = 1
                      /\ sink[2].lines[1] = HeaderRow
               /\ HeaderCount(sink[2]) > HeaderCount(sink[1]) <=> HeaderCount(sink[1]) = 0]_vars

(***************************************************************************)
(* Text.  A Python str is the sequence of its characters; a character is a *)
(* one-character string, and a character that cannot be written in a      *)
(* string of this module is written as its code point.                     *)
(***************************************************************************)
Chars(str) == [i \in 1..Len(str) |-> SubSeq(str, i, i)]

Backtick == "U+0060"

Bullet == "U+2022"

MidDot == "U+00B7"

FwSemicolon == "U+FF1B"

\* "（解析失败）" (line 102)
ParseFailedPlaceholder == <<"U+FF08", "U+89E3", "U+6790", "U+5931", "U+8D25", "U+FF09">>

\* The characters str.strip() removes, which are also the whitespace of JSON.
Whitespace == {" ", "\t", "\n", "\r"}

Repeat(ch, n) == [k \in 1..n |-> ch]

Least(S) == CHOOSE x \in S : \A y \in S : x <= y

Greatest(S) == CHOOSE x \in S : \A y \in S : x >= y

TakeAll(seq, n) == seq

\* seq[:n]
Take(seq, n) == SubSeq(seq, 1, Min(n, Len(seq)))

\* str.strip(chars): what lies between the first and the last character that
\* is not one of chars
Strip(cs, set) ==
    LET keep == {k \in 1..Len(cs) : cs[k] \notin set}
    IN  IF keep = {} THEN <<>> ELSE SubSeq(cs, Least(keep), Greatest(keep))

\* str.splitlines(), the line boundaries being \n and \r; the pieces are only
\* used after the blank ones are dropped, so \r\n may count as two boundaries
\* and a boundary at the end may open an empty last line.
splitlines(cs) ==
    LET breaks == {k \in 1..Len(cs) : cs[k] \in {"\n", "\r"}}
        \* position of the j-th boundary; the start and the end of the text
        \* are boundaries 0 and Cardinality(breaks) + 1
        at(j) == IF j = 0 THEN 0
                 ELSE IF j > Cardinality(breaks) THEN Len(cs) + 1
                 ELSE CHOOSE b \in breaks : Cardinality({x \in breaks : x < b}) = j - 1
    IN  IF cs = <<>> THEN <<>>
        ELSE [j \in 1..(Cardinality(breaks) + 1) |-> SubSeq(cs, at(j - 1) + 1, at(j) - 1)]

(***************************************************************************)
(* json.loads for the JSON the model's texts are written in: objects,      *)
(* arrays, strings without escapes, unsigned integers, true, false, null.  *)
(* A value is [t, v]; the value of an object is the sequence of its        *)
(* members, where a later member of the same name wins as in a dict.       *)
(***************************************************************************)
JNull == [t |-> "null", v |-> 0]

ParseFail == [ok |-> FALSE, val |-> JNull, next |-> 0]

ParseOk(val, next) == [ok |-> TRUE, val |-> val, next |-> next]

Digits == {"0", "1", "2", "3", "4", "5", "6", "7", "8", "9"}

DigitValue(ch) == CHOOSE d \in 0..9 : Chars("0123456789")[d + 1] = ch

\* Index of the first character at or after i that is not whitespace
SkipWs(cs, i) == Least({k \in i..Len(cs) : cs[k] \notin Whitespace} \cup {Max(i, Len(cs) + 1)})

\* Index of the quote that closes a string opened before i, 0 when the string
\* is not closed or holds a control character or an escape.
ClosingQuote(cs, i) ==
    LET stops == {k \in i..Len(cs) : cs[k] \in {"\"", "\n", "\r", "\t", "\\"}}
    IN  IF stops = {} THEN 0
        ELSE IF cs[Least(stops)] = "\"" THEN Least(stops)
        ELSE 0

ParseString(cs, i) ==
    LET j == ClosingQuote(cs, i + 1)
    IN  IF j = 0 THEN ParseFail
        ELSE ParseOk([t |-> "str", v |-> SubSeq(cs, i + 1, j - 1)], j + 1)

RECURSIVE ParseNumber(_, _, _)
ParseNumber(cs, i, acc) ==
    IF i <= Len(cs) /\ cs[i] \in Digits
    THEN ParseNumber(cs, i + 1, 10 * acc + DigitValue(cs[i]))
    ELSE ParseOk([t |-> "num", v |-> acc], i)

StartsWith(cs, i, word) ==
    /\ i + Len(word) - 1 <= Len(cs)
    /\ SubSeq(cs, i, i + Len(word) - 1) = word

ParseLiteral(cs, i) ==
    IF StartsWith(cs, i, Chars("true")) THEN ParseOk([t |-> "bool", v |-> 1], i + 4)
    ELSE IF StartsWith(cs, i, Chars("false")) THEN ParseOk([t |-> "bool", v |-> 0], i + 5)
    ELSE IF StartsWith(cs, i, Chars("null")) THEN ParseOk(JNull, i + 4)
    ELSE ParseFail

RECURSIVE ParseValue(_, _), ParseArray(_, _, _), ParseObject(_, _, _)
\* cs[i] is the first character of the value.
ParseValue(cs, i) ==
    IF i > Len(cs) THEN ParseFail
    ELSE IF cs[i] = "\"" THEN ParseString(cs, i)
    ELSE IF cs[i] = "[" THEN Once(SkipWs(cs, i + 1), LAMBDA j : ParseArray(cs, j, <<>>))
    ELSE IF cs[i] = "{" THEN Once(SkipWs(cs, i + 1), LAMBDA j : ParseObject(cs, j, <<>>))
    ELSE IF cs[i] \in Digits THEN ParseNumber(cs, i, 0)
    ELSE ParseLiteral(cs, i)

\* cs[i] follows "[" or a comma; "]" is accepted here only right after "[".
ParseArray(cs, i, acc) ==
    IF i > Len(cs) THEN ParseFail
    ELSE IF cs[i] = "]" /\ acc = <<>> THEN ParseOk([t |-> "list", v |-> acc], i + 1)
    ELSE Once(ParseValue(cs, i), LAMBDA r :
         IF ~r.ok THEN ParseFail
         ELSE Once(SkipWs(cs, r.next), LAMBDA k :
              IF k > Len(cs) THEN ParseFail
              ELSE IF cs[k] = ","
              THEN Once([i |-> SkipWs(cs, k + 1), acc |-> acc \o <<r.val>>],
                        LAMBDA a : ParseArray(cs, a.i, a.acc))
              ELSE IF cs[k] = "]" THEN ParseOk([t |-> "list", v |-> acc \o <<r.val>>], k + 1)
              ELSE ParseFail))

\* cs[i] follows "{" or a comma; "}" is accepted here only right after "{".
ParseObject(cs, i, acc) ==
    IF i > Len(cs) THEN ParseFail
    ELSE IF cs[i] = "}" /\ acc = <<>> THEN ParseOk([t |-> "obj", v |-> acc], i + 1)
    ELSE IF cs[i] # "\"" THEN ParseFail
    ELSE Once(ParseString(cs, i), LAMBDA key :
         IF ~key.ok THEN ParseFail
         ELSE Once(SkipWs(cs, key.next), LAMBDA colon :
              IF colon > Len(cs) \/ cs[colon] # ":" THEN ParseFail
              ELSE Once(ParseValue(cs, SkipWs(cs, colon + 1)), LAMBDA r :
                   IF ~r.ok THEN ParseFail
                   ELSE Once([k |-> SkipWs(cs, r.next),
                              members |-> acc \o <<[key |-> key.val.v, val |-> r.val]>>],
                             LAMBDA a :
                        IF a.k > Len(cs) THEN ParseFail
                        ELSE IF cs[a.k] = ","
                        THEN Once(SkipWs(cs, a.k + 1),
                                  LAMBDA j : ParseObject(cs, j, a.members))
                        ELSE IF cs[a.k] = "}"
                        THEN ParseOk([t |-> "obj", v |-> a.members], a.k + 1)
                        ELSE ParseFail))))

\* json.loads(text): one value, whitespace around it, nothing else.
json_loads(cs) ==
    Once(ParseValue(cs, SkipWs(cs, 1)), LAMBDA r :
        IF r.ok /\ SkipWs(cs, r.next) = Len(cs) + 1 THEN r ELSE ParseFail)

\* dict.get(key): the last member of that name, None (null) when there is none
HasKey(members, key) == \E k \in 1..Len(members) : members[k].key = key

DictGet(members, key) ==
    IF HasKey(members, key)
    THEN members[CHOOSE k \in 1..Len(members) :
                     /\ members[k].key = key
                     /\ \A j \in (k + 1)..Len(members) : members[j].key # key].val
    ELSE JNull

\* Truth value of a Python object
Truthy(val) ==
    CASE val.t = "null" -> FALSE
      [] val.t \in {"bool", "num"} -> val.v # 0
      [] OTHER -> val.v # <<>>

(***************************************************************************)
(* parse_json_or_fallback (src/templates/summarize_and_email.py:93-104).   *)
(***************************************************************************)
\* one[:60], lines[0][:60]
HeadlineBudget == 60

\* pts[:8], lines[1:9]
MaxPoints == 8

\* ln[:80]
PointBudget == 80

BulletCharsNone == {}

\* ln.strip(" \t-•·")
BulletChars == {" ", "\t", "-", Bullet, MidDot}

\* What `for p in obj.get("points", [])` iterates over: the elements of a
\* list, the characters of a str, the keys of a dict; `raises` for a value
\* that cannot be iterated.
Iterate(members) ==
    LET val == DictGet(members, Chars("points"))
    IN  IF ~HasKey(members, Chars("points")) THEN [raises |-> FALSE, elems |-> <<>>]
        ELSE IF val.t = "list" THEN [raises |-> FALSE, elems |-> val.v]
        ELSE IF val.t = "str"
        THEN [raises |-> FALSE, elems |-> [k \in 1..Len(val.v) |-> [t |-> "str", v |-> <<val.v[k]>>]]]
        ELSE IF val.t = "obj"
        THEN [raises |-> FALSE, elems |-> [k \in 1..Len(val.v) |-> [t |-> "str", v |-> val.v[k].key]]]
        ELSE [raises |-> TRUE, elems |-> <<>>]

IsNonBlankStr(val) == val.t = "str" /\ Strip(val.v, Whitespace) # <<>>

\* Lines 95-98, the body of the try.
TryJson(text) ==
    LET r == json_loads(text)
        obj == r.val
        got == DictGet(obj.v, Chars("one_line"))
        it == Iterate(obj.v)
        kept == SelectSeq(it.elems, IsNonBlankStr)
    IN  IF ~r.ok \/ obj.t # "obj" THEN [raises |-> TRUE, one_line |-> <<>>, points |-> <<>>]
        ELSE IF Truthy(got) /\ got.t # "str"
        THEN [raises |-> TRUE, one_line |-> <<>>, points |-> <<>>]
        ELSE IF it.raises THEN [raises |-> TRUE, one_line |-> <<>>, points |-> <<>>]
        ELSE [raises |-> FALSE,
              one_line |-> Take(Strip(IF Truthy(got) THEN got.v ELSE <<>>, Whitespace),
                                HeadlineBudget),
              points |-> Take([k \in 1..Len(kept) |-> Strip(kept[k].v, Whitespace)], MaxPoints)]

IsNonBlankLine(ln) == Strip(ln, Whitespace) # <<>>

\* Lines 101-104, the except branch.
Fallback(text) ==
    LET nonblank == SelectSeq(splitlines(text), IsNonBlankLine)
        lines == [k \in 1..Len(nonblank) |-> Strip(nonblank[k], BulletChars)]
        rest == SubSeq(lines, 2, Min(Len(lines), MaxPoints + 1))
    IN  [one_line |-> IF lines # <<>> THEN Take(lines[1], HeadlineBudget)
                      ELSE ParseFailedPlaceholder,
         points |-> [k \in 1..Len(rest) |-> Take(rest[k], PointBudget)]]

parse_json_or_fallback(text) ==
    LET try == TryJson(text)
    IN  IF try.raises
        THEN [tier |-> "fallback", one_line |-> Fallback(text).one_line,
              points |-> Fallback(text).points]
        ELSE [tier |-> "json", one_line |-> try.one_line, points |-> try.points]

(***************************************************************************)
(* The normalizer as its own specification.                                *)
(***************************************************************************)
Fence == <<Backtick, Backtick, Backtick>>

FencedExample ==
    Fence \o Chars("json\n{\"headline\":\"x\",\"points\":[\"a\",\"b\"]}\n") \o Fence

PrefixedExample ==
    Chars("no fences {\"headline\":\"y\",\"points\":\"a") \o <<FwSemicolon>> \o Chars("b\"}")

PlainExample == Chars("plain line one\n- point one\n- point two")

RECURSIVE JoinLines(_)
JoinLines(lines) ==
    IF lines = <<>> THEN <<>>
    ELSE IF Len(lines) = 1 THEN lines[1]
    ELSE lines[1] \o <<"\n">> \o JoinLines(Tail(lines))

\* A JSON array of n strings "p1", "p2", ...
RECURSIVE PointList(_)
PointList(n) ==
    IF n = 0 THEN <<>>
    ELSE PointList(n - 1) \o (IF n > 1 THEN <<",">> ELSE <<>>)
         \o <<"\"", "p", Chars("0123456789")[(n % 10) + 1], "\"">>

LongObject(headline, n) ==
    Chars("{\"one_line\":\"") \o Repeat("h", headline) \o Chars("\",\"points\":[")
    \o PointList(n) \o Chars("]}")

JsonTexts ==
    {Chars("{\"one_line\":\"x\",\"points\":[\"a\",\"b\"]}"),
     Chars("{\"headline\":\"x\",\"points\":[\"a\",\"b\"]}"),
     Chars(" { \"one_line\" : \" x \" , \"points\" : [ \" a \", 1, \"\", \"  \", null, \"b\" ] } \n"),
     Chars("{\"one_line\":5,\"points\":[]}"),
     Chars("{\"one_line\":0}"),
     Chars("{\"one_line\":null,\"points\":[\"a\"]}"),
     Chars("{\"one_line\":[\"x\"]}"),
     Chars("{\"one_line\":\"x\",\"one_line\":\"y\"}"),
     Chars("{\"points\":\"a b\"}"),
     Chars("{\"points\":null}"),
     Chars("{\"points\":3}"),
     Chars("{\"points\":true}"),
     Chars("{\"points\":{\"k\":\"v\",\"m\":1}}"),
     Chars("{\"one_line\":\"x\",}"),
     Chars("{\"one_line\":\"x\"} trailing"),
     Chars("{\"one_line\":\"x\""),
     Chars("{}"),
     Chars("[1,2]"),
     Chars("[]"),
     Chars("\"just a string\""),
     Chars("42"),
     Chars("null"),
     Chars("true"),
     FencedExample,
     PrefixedExample,
     PlainExample}
    \cup {LongObject(h, n) : h \in {HeadlineBudget - 1, HeadlineBudget, HeadlineBudget + MaxTextExcess},
                             n \in {0, MaxPoints, MaxPoints + MaxTextExcess}}

LineForms ==
    {<<>>,
     Chars("  \t"),
     Chars("plain line one"),
     Chars("- point one"),
     Chars("---"),
     <<" ", Bullet, " ">> \o Chars("point two -") \o <<MidDot>>,
     Chars("- ") \o Repeat("a", PointBudget + MaxTextExcess) \o Chars(" -")}

LineTexts ==
    {JoinLines(ls) : ls \in UNION {[1..n -> LineForms] : n \in 0..MaxTextLines}}
    \cup {JoinLines([k \in 1..n |-> Chars("- p") \o <<Chars("0123456789")[(k % 10) + 1]>>]) :
              n \in {MaxPoints, MaxPoints + 1, MaxPoints + 1 + MaxTextExcess}}

NormTexts == JsonTexts \cup LineTexts

NormInit ==
    /\ RunIdle
    /\ PureIdle
    /\ summ = SummIdle
    /\ lister = ListerIdle
    /\ tretry = RetryIdle
    /\ norm \in {[NormIdle EXCEPT !.text = t, !.pc = "start"] : t \in NormTexts}

\* One call of parse_json_or_fallback.
Normalize ==
    /\ norm.pc = "start"
    /\ LET r == parse_json_or_fallback(norm.text) IN
       norm' = [norm EXCEPT !.pc = "returned", !.tier = r.tier,
                            !.one_line = r.one_line, !.points = r.points]
    /\ UNCHANGED <<summ, lister, retry, tretry, sorter, walk, enrich>>
    /\ UNCHANGED runVars

SpecNormalizeNext == Normalize

SpecNormalize == NormInit /\ [][SpecNormalizeNext]_vars

\* C16: every call of the normalizer returns; the headline has at most 60
\* characters and there are at most 8 points, whatever the text (a JSON object,
\* other JSON, fields of a wrong type, fenced, freeform); the empty text gives
\* the placeholder headline and no point.
NormalizationTotal ==
    /\ norm.pc \in {"start", "returned"}
    /\ norm.pc = "returned" =>
           /\ norm.tier \in {"json", "fallback"}
           /\ Len(norm.one_line) <= 60
           /\ Len(norm.points) <= 8
           /\ norm.text = <<>> =>
                  /\ norm.one_line = ParseFailedPlaceholder
                  /\ norm.points = <<>>

\* An object whose headline and point list both exceed the limits came back cut.
NormalizationTotalWitness ==
    /\ norm.pc = "returned"
    /\ norm.text = LongObject(HeadlineBudget + MaxTextExcess, MaxPoints + MaxTextExcess)
    /\ norm.tier = "json"
    /\ Len(norm.one_line) = 60
    /\ Len(norm.points) = 8

\* C17: a JSON object inside a code fence, or after freeform text, is cut to
\* its braces and parsed, and a `points` string is split on its separators: the
\* fenced example gives headline "x" and points "a", "b"; the prefixed example
\* gives headline "y" and points "a", "b".
StructuredTiers ==
    norm.pc = "returned" =>
        /\ norm.text = FencedExample =>
               /\ norm.one_line = Chars("x")
               /\ norm.points = <<Chars("a"), Chars("b")>>
        /\ norm.text = PrefixedExample =>
               /\ norm.one_line = Chars("y")
               /\ norm.points = <<Chars("a"), Chars("b")>>

NonEmptyLines(text) == SelectSeq(splitlines(text), LAMBDA ln : \E k \in 1..Len(ln) : ln[k] \notin Whitespace)

CallFailedPlaceholder ==
    <<"U+FF08", "U+6A21", "U+578B", "U+8C03", "U+7528", "U+5931", "U+8D25", "U+FF0C",
      "U+4FDD", "U+7559", "U+5360", "U+4F4D", "U+FF09">>

\* post_with_retries of the template summarizer (lines 42-54), translated on
\* its own; the request differs from the other executor's in how the payload
\* is encoded (data=json.dumps(payload) for json=payload), not in what the
\* statuses lead to.
TemplateIsTransientServerOnly(s) == s \in {500, 502, 503, 504}

\* resp.status_code in (429, 500, 502, 503, 504) (line 47)
TemplateIsTransient(s) == s \in {429, 500, 502, 503, 504}

\* if i == tries - 1 (line 48)
TemplateIsLastTry(i, tries) == i = tries - 1

\* backoff = min(backoff * 2, 60) (line 51)
TemplateNextBackoff(b) == Min(b * 2, 60)

\* backoff = 2 (line 43)
TemplateRetryStart(tries) ==
    [tries |-> tries, i |-> 0, backoff |-> 2, sleeps |-> <<>>,
     statuses |-> <<>>, pc |-> "loop", returned |-> 0]

\* One iteration of `for i in range(tries)` (lines 44-54).
TemplateRetryIteration(r, s) ==
    LET seen == [r EXCEPT !.statuses = Append(@, s)] IN
    IF TemplateIsTransient(s)
    THEN IF TemplateIsLastTry(r.i, r.tries) /\ RaiseForStatus(s)
         THEN [seen EXCEPT !.pc = "raised"]
         ELSE [seen EXCEPT !.sleeps = Append(@, r.backoff),
                           !.backoff = TemplateNextBackoff(r.backoff),
                           !.i = r.i + 1,
                           !.pc = IF r.i + 1 >= r.tries THEN "none" ELSE "loop"]
    ELSE IF RaiseForStatus(s)
         THEN [seen EXCEPT !.pc = "raised"]
         ELSE [seen EXCEPT !.pc = "returned", !.returned = s]

RECURSIVE PostRun(_, _)
PostRun(r, script) ==
    IF r.pc # "loop" \/ script = <<>> THEN r
    ELSE PostRun(TemplateRetryIteration(r, Head(script)), Tail(script))

\* post_with_retries(...) with the default tries (line 42) against a service
\* that answers with the statuses of the script
post_with_retries(script) == PostRun(TemplateRetryStart(5), script)

\* call_openrouter (lines 56-72): an exception of post_with_retries goes
\* through; resp.json() and the subscripts raise on a body that is not a
\* completion; the content comes back stripped.
call_openrouter(service) ==
    LET r == post_with_retries(service.script)
    IN  [requests |-> Len(r.statuses),
         last |-> r.statuses[Len(r.statuses)],
         raises |-> r.pc # "returned" \/ service.body = "malformed",
         content |-> Strip(service.text, Whitespace)]

Services ==
    {[script |-> <<200>>, body |-> "completion",
      text |-> Chars("{\"one_line\":\"x\",\"points\":[\"a\",\"b\"]}\n")],
     [script |-> <<503, 200>>, body |-> "completion", text |-> PlainExample],
     [script |-> <<200>>, body |-> "malformed", text |-> <<>>],
     [script |-> <<404>>, body |-> "malformed", text |-> <<>>],
     [script |-> <<503, 429, 500, 502, 504>>, body |-> "malformed", text |-> <<>>]}

SummStart(rows) == [rows |-> rows, i |-> 1, items |-> <<>>, calls |-> <<>>, pc |-> "loop"]

\* Lines 143-170, one iteration of `for r in rows`.
SummStep(sm) ==
    LET call == call_openrouter(sm.rows[sm.i])
        parsed == IF call.raises
                  THEN [one_line |-> CallFailedPlaceholder, points |-> <<>>]
                  ELSE [one_line |-> parse_json_or_fallback(call.content).one_line,
                        points |-> parse_json_or_fallback(call.content).points]
    IN  [sm EXCEPT !.calls = Append(@, [requests |-> call.requests, last |-> call.last,
                                        raises |-> call.raises]),
                   !.items = Append(@, [row |-> sm.i,
                                        one_line_summary |-> parsed.one_line,
                                        key_points |-> parsed.points]),
                   !.i = sm.i + 1]

SummInit ==
    /\ RunIdle
    /\ PureIdle
    /\ norm = NormIdle
    /\ lister = ListerIdle
    /\ tretry = RetryIdle
    /\ summ \in {SummStart(rows) : rows \in UNION {[1..n -> Services] : n \in 0..MaxReportRows}}

SummarizeRow ==
    /\ summ.pc = "loop"
    /\ summ.i <= Len(summ.rows)
    /\ summ' = SummStep(summ)
    /\ UNCHANGED <<norm, lister, retry, tretry, sorter, walk, enrich>>
    /\ UNCHANGED runVars

\* Lines 132-138 and 172-176: the report is rendered from the items, written
\* and mailed, also when there was no row.
SendReport ==
    /\ summ.pc = "loop"
    /\ summ.i > Len(summ.rows)
    /\ summ' = [summ EXCEPT !.pc = "sent"]
    /\ UNCHANGED <<norm, lister, retry, tretry, sorter, walk, enrich>>
    /\ UNCHANGED runVars

SpecSummarizeNext == SummarizeRow \/ SendReport

SpecSummarize == SummInit /\ [][SpecSummarizeNext]_vars

\* C19: retry exhaustion on the completion call (five requests, the fifth
\* answered with 429, 500, 502, 503 or 504) stops the run at that row: no item
\* is made for the row and no report is sent; any other failed call (a permanent
\* status, a body that is no completion) gets an item with placeholder content
\* and the run goes on.
RunStoppingConditions ==
    \A k \in 1..Len(summ.calls) :
        IF /\ summ.calls[k].raises
           /\ summ.calls[k].requests = 5
           /\ summ.calls[k].last \in {429, 500, 502, 503, 504}
        THEN /\ Len(summ.items) < k
             /\ summ.pc # "sent"
        ELSE /\ Len(summ.items) >= k
             /\ summ.calls[k].raises => summ.items[k].key_points = <<>>

(***************************************************************************)
(* list_all_subscriptions as its own specification.                        *)
(***************************************************************************)
\* An entry that is no channel although it carries a channel's id.
PlaylistEntry(c) == [kind |-> "youtube#playlist", channelId |-> c]

EnumPageItems ==
    {<<>>,
     <<ChannelEntry(1)>>,
     <<OtherEntry, ChannelEntry(2)>>,
     <<ChannelEntry(3), PlaylistEntry(3), ChannelEntry(1)>>}

\* Page k answers the request for token k (the first request has no token) and
\* hands out the token of page k + 1 unless it is the last; a page may answer
\* with an error instead.
EnumListings ==
    UNION {{[k \in 1..n |-> IF fails[k] THEN PageError
                            ELSE PageOk(body[k], IF k < n THEN k + 1 ELSE 0)] :
                body \in [1..n -> EnumPageItems], fails \in [1..n -> BOOLEAN]} :
           n \in 1..MaxListPages}

EnumInit ==
    /\ RunIdle
    /\ PureIdle
    /\ norm = NormIdle
    /\ summ = SummIdle
    /\ tretry = RetryIdle
    /\ lister \in {ListStart(l) : l \in EnumListings}

\* One iteration of `while True` (lines 119-131).
ListPage ==
    /\ lister.pc = "loop"
    /\ lister' = ListStep(lister)
    /\ UNCHANGED <<norm, summ, retry, tretry, sorter, walk, enrich>>
    /\ UNCHANGED runVars

SpecEnumNext == ListPage

SpecEnum == EnumInit /\ [][SpecEnumNext]_vars

ChannelIdsOfPage(page) ==
    LET chans == SelectSeq(page.items, LAMBDA e : e.kind = "youtube#channel")
    IN  [i \in 1..Len(chans) |-> chans[i].channelId]

\* C20: the first request carries no token and every later one the token of
\* the response before it; the listing ends with the first response without a
\* token and then returns the ids of the channel-kind entries of all pages, in
\* page order, and nothing else; a failed page request ends it with the
\* failure and the caller gets no list.
SourceEnumeration ==
    LET n == Len(lister.requests)
        page(k) == lister.listing[k]
    IN  /\ n > 0 => lister.requests[1] = 0
        /\ \A k \in 2..n :
               /\ page(k - 1).status = 200
               /\ page(k - 1).next # 0
               /\ lister.requests[k] = page(k - 1).next
        /\ lister.pc = "loop" => lister.returned = <<>>
        /\ lister.pc = "done" =>
               /\ page(n).status = 200
               /\ page(n).next = 0
               /\ lister.returned = Flatten([k \in 1..n |-> ChannelIdsOfPage(page(k))])
        /\ lister.pc = "HttpError" =>
               /\ page(n).status # 200
               /\ lister.returned = <<>>
        /\ (n > 0 /\ page(n).status # 200) => lister.pc = "HttpError"

\* Three pages, the last with a playlist that carries a channel's id.
SourceEnumerationWitness ==
    /\ lister.pc = "done"
    /\ lister.requests = <<0, 2, 3>>
    /\ lister.returned = <<1, 2, 3, 1>>

(***************************************************************************)
(* The two retry executors side by side: post_with_retries of               *)
(* src/summarize_and_email.py (retry) and of                               *)
(* src/templates/summarize_and_email.py (tretry) are called with the same  *)
(* tries and every request of either is answered with the same status.     *)
(***************************************************************************)
RetryBothInit ==
    /\ RunIdle
    /\ sorter = SorterIdle
    /\ walk = WalkIdle
    /\ enrich = EnrichIdle
    /\ norm = NormIdle
    /\ summ = SummIdle
    /\ lister = ListerIdle
    /\ \E t \in 1..MaxTries :
           /\ retry = RetryStart(t)
           /\ tretry = TemplateRetryStart(t)

\* The k-th request of each executor is answered with the same status; an
\* executor that has ended issues no request.
PostBoth ==
    /\ retry.pc = "loop" \/ tretry.pc = "loop"
    /\ \E s \in ResponseStatuses :
           /\ retry' = IF retry.pc = "loop" THEN RetryIteration(retry, s) ELSE retry
           /\ tretry' = IF tretry.pc = "loop" THEN TemplateRetryIteration(tretry, s)
                        ELSE tretry
    /\ UNCHANGED <<sorter, walk, enrich, norm, summ, lister>>
    /\ UNCHANGED runVars

SpecRetryBothNext == PostBoth

SpecRetryBoth == RetryBothInit /\ [][SpecRetryBothNext]_vars

\* C23: after the same responses the two executors have issued the same
\* requests, slept the same durations, hold the same next backoff and are at
\* the same position: both still looping, both returned with the same
\* response, or both raised.
RetryPolicyIdentical ==
    /\ retry.statuses = tretry.statuses
    /\ retry.sleeps = tretry.sleeps
    /\ retry.backoff = tretry.backoff
    /\ retry.i = tretry.i
    /\ retry.pc = tretry.pc
    /\ retry.returned = tretry.returned

\* Seven tries, six transient responses starting with a 429, then a 200: both
\* have slept up to the cap and returned.
RetryPolicyIdenticalWitness ==
    /\ tretry.tries = 7
    /\ tretry.statuses = <<429, 503, 500, 502, 504, 503, 200>>
    /\ tretry.sleeps = <<2, 4, 8, 16, 32, 60>>
    /\ tretry.pc = "returned"
    /\ retry.pc = "returned"

(***************************************************************************)
(* The loop over the sources (src/youtube_subs_daily.py:232-290) on feeds  *)
(* of full pages, so that enrich_videos is handed several chunks: the      *)
(* first source lists video 1 or fails to resolve, the second has any feed *)
(* of the walk model, and the catalog is one of the enrichment model.      *)
(***************************************************************************)
SourceWorlds ==
    {[listing |-> <<PageOk(<<ChannelEntry(1), ChannelEntry(2)>>, 0)>>,
      chan |-> [c \in Channels |-> IF c = 1 THEN first ELSE [resolve |-> "ok", feed |-> f]],
      catalog |-> cat,
      published |-> [v \in 1..(MAX_RESULTS * MaxFeedPages) |-> PublishedOf("Z", v)]] :
        first \in {[resolve |-> "ok", feed |-> <<PageOk(<<1>>, 0)>>],
                   [resolve |-> "error", feed |-> <<>>]},
        f \in WalkFeeds, cat \in EnrichCatalogs}

\* The run is past line 229 with both sources listed.
SourceInit ==
    /\ PureIdle
    /\ StageIdle
    /\ world \in SourceWorlds
    /\ worldAge = "new"
    /\ stateFile = NoStateFile
    /\ alltime = NoFile
    /\ dayfile = NoFile
    /\ clock = 1
    /\ overlapped = FALSE
    /\ pc = [p \in Procs |-> IF p = 1 THEN "channels" ELSE "idle"]
    /\ state = [p \in Procs |-> read_state(NoStateFile)]
    /\ seen_ids \in {[p \in Procs |-> IF p = 1 THEN loaded ELSE {}] : loaded \in {{}, {2}}}
    /\ channel_ids = [p \in Procs |-> IF p = 1 THEN <<1, 2>> ELSE <<>>]
    /\ idx = [p \in Procs |-> 1]
    /\ new_rows = [p \in Procs |-> <<>>]
    /\ nRows = [p \in Procs |-> 0]
    /\ lastCalls = [p \in Procs |-> <<>>]
    /\ replay = [p \in Procs |-> FALSE]
    /\ stateWrites = [p \in Procs |-> 0]

SpecSourceNext == \E p \in Procs : Channel(p)

SpecSource == SourceInit /\ [][SpecSourceNext]_vars

\* The catalog answers one of the calls made for the source with an error:
\* the lookup, a page of the feed within the budget, or a chunk of the
\* identifiers that are fresh.
SourceCallFails(w, ch_id, seen, pages) ==
    LET cw == w.chan[ch_id] IN
    \/ cw.resolve = "error"
    \/ /\ cw.resolve = "ok"
       /\ LET wk == fetch_playlist_items_pages(cw.feed, pages) IN
          \/ wk.pc = "HttpError"
          \/ Range(FreshIds(wk.items, seen)) \cap w.catalog.poison # {}

\* C25: the pass of the loop over a source one of whose calls fails leaves the
\* collected rows and the seen identifiers exactly as they were before the
\* pass, whichever call it is, and the loop goes on.
PerSourceAtomicity ==
    [][\A p \in Procs :
         (/\ pc[p] = "channels"
          /\ idx'[p] = idx[p] + 1
          /\ SourceCallFails(world, channel_ids[p][idx[p]], seen_ids[p], DefaultPages)) =>
             /\ new_rows'[p] = new_rows[p]
             /\ seen_ids'[p] = seen_ids[p]
             /\ pc'[p] \in {"channels", "write_csv"}]_vars

\* The second source lists 150 videos on three pages, 149 of them fresh; the
\* first chunk of 50 is enriched and the second, which holds video 101, is
\* refused: the run holds the row of the first source alone.
PerSourceAtomicityWitness ==
    /\ pc[1] = "write_csv"
    /\ world.catalog = [missing |-> {}, poison |-> {101}]
    /\ Len(FeedItems(world.chan[2])) = 150
    /\ Len(lastCalls[1]) = 3
    /\ lastCalls[1][3].kind = "videos.list"
    /\ lastCalls[1][3].raised
    /\ LET en == enrich_videos(world.catalog, FreshIds(FeedItems(world.chan[2]), {1}))
       IN  /\ Len(en.replies) = 1
           /\ Len(en.calls) = 2
           /\ en.pc = "HttpError"
    /\ RowIds(new_rows[1]) = {1}
    /\ seen_ids[1] = {1}

(***************************************************************************)
(* The output cleaning of src/summarize_and_email.py (lines 97-127), on    *)
(* texts whose only line boundary is \n.  The regular expressions are      *)
(* translated by what their matching amounts to.                           *)
(***************************************************************************)
\* The characters of the model's alphabet that \w does not match; every
\* other character written as a code point is a letter.
PunctuationTokens ==
    {Backtick, Bullet, MidDot, FwSemicolon, "U+FF08", "U+FF09", "U+FF1A", "U+FF0C"}

AsciiWordChars == Range(Chars("abcdefghijklmnopqrstuvwxyzABCDEFGHIJKLMNOPQRSTUVWXYZ0123456789_"))

\* [\w-]
IsTagChar(ch) == ch \in AsciiWordChars \/ ch = "-" \/ (Len(ch) > 1 /\ ch \notin PunctuationTokens)

\* The first position from p on whose character is not in the class, or the
\* position after the text.
SkipWhile(cs, p, InClass(_)) ==
    Least({k \in p..Len(cs) : ~InClass(cs[k])} \cup {Len(cs) + 1})

IsSpace(ch) == ch \in Whitespace

IsFenceAt(cs, k) ==
    /\ k >= 1
    /\ k + 2 <= Len(cs)
    /\ \A j \in k..(k + 2) : cs[j] = Backtick

\* Where group 1 of ```(?:[\w-]+)?\s*(.*?)\s*``` starts when the pattern is
\* tried at the fence at k: after the longest tag and the whitespace behind it.
GroupStart(cs, k) == SkipWhile(cs, SkipWhile(cs, k + 3, IsTagChar), IsSpace)

\* strip_code_fences (lines 97-103)
strip_code_fences(text) ==
    LET s == Strip(text, Whitespace)
        n == Len(s)
        opens == {k \in 1..n : IsFenceAt(s, k)}
    IN  IF n >= 6 /\ IsFenceAt(s, 1) /\ IsFenceAt(s, n - 2)
        THEN \* re.fullmatch: the group ends where only whitespace is left
             \* before the closing fence
             Strip(SubSeq(s, GroupStart(s, 1), n - 3), Whitespace)
        ELSE IF opens = {} THEN s
        ELSE \* re.search: the leftmost fence that has a closing fence; the
             \* lazy group ends before the whitespace in front of it
             LET p == GroupStart(s, Least(opens))
                 ends == {q \in p..n : IsFenceAt(s, SkipWhile(s, q, IsSpace))}
                 group == SubSeq(s, p, Least(ends) - 1)
             IN  IF ends # {} /\ 10 * Len(group) > 4 * n
                 THEN Strip(group, Whitespace)
                 ELSE s

\* text.splitlines() with the empty piece left out that `splitlines` above
\* opens after a boundary at the end of the text
Lines(cs) ==
    LET pieces == splitlines(cs)
    IN  IF cs # <<>> /\ cs[Len(cs)] = "\n" THEN SubSeq(pieces, 1, Len(pieces) - 1)
        ELSE pieces

\* ln.rstrip()
RStrip(cs) ==
    LET keep == {k \in 1..Len(cs) : cs[k] \notin Whitespace}
    IN  IF keep = {} THEN <<>> ELSE SubSeq(cs, 1, Greatest(keep))

\* The words of the first pattern of `drop` (line 108):
\* 好的 以下是 这是 这里是 本视频 总结 内容要点 概述
OpeningWords ==
    {<<"U+597D", "U+7684">>, <<"U+4EE5", "U+4E0B", "U+662F">>, <<"U+8FD9", "U+662F">>,
     <<"U+8FD9", "U+91CC", "U+662F">>, <<"U+672C", "U+89C6", "U+9891">>,
     <<"U+603B", "U+7ED3">>, <<"U+5185", "U+5BB9", "U+8981", "U+70B9">>,
     <<"U+6982", "U+8FF0">>}

\* str.lower() on the letters of the alphabet
LowerChar(ch) ==
    LET upper == Chars("ABCDEFGHIJKLMNOPQRSTUVWXYZ")
        lower == Chars("abcdefghijklmnopqrstuvwxyz")
    IN  IF \E k \in 1..26 : upper[k] = ch
        THEN lower[CHOOSE k \in 1..26 : upper[k] = ch]
        ELSE ch

\* word occurs at position i of cs, letter case ignored (re.I)
StartsWithIgnoringCase(cs, i, word) ==
    /\ i >= 1
    /\ i + Len(word) - 1 <= Len(cs)
    /\ \A k \in 1..Len(word) : LowerChar(cs[i + k - 1]) = LowerChar(word[k])

\* ^(...)\s*[:：] (line 108)
MatchesOpening(t) ==
    \E w \in OpeningWords :
        /\ StartsWith(t, 1, w)
        /\ LET q == SkipWhile(t, Len(w) + 1, IsSpace)
           IN  q <= Len(t) /\ t[q] \in {":", "U+FF1A"}

\* ^这是对.+?(视频|YouTube).+?(总结|要点) (line 109)
MatchesSummaryOf(t) ==
    /\ StartsWith(t, 1, <<"U+8FD9", "U+662F", "U+5BF9">>)
    /\ \E a \in 5..Len(t) :
          \E subject \in {<<"U+89C6", "U+9891">>, Chars("YouTube")} :
             /\ StartsWithIgnoringCase(t, a, subject)
             /\ \E b \in (a + Len(subject) + 1)..Len(t) :
                   \E kind \in {<<"U+603B", "U+7ED3">>, <<"U+8981", "U+70B9">>} :
                       StartsWith(t, b, kind)

\* any(re.match(p, ln.strip(), flags=re.I) for p in drop)
IsOpeningLine(ln) ==
    LET t == Strip(ln, Whitespace) IN MatchesOpening(t) \/ MatchesSummaryOf(t)

\* clean_leading_prefixes (lines 105-119): up to two leading lines that match
\* are left out; when nothing is left the text comes back as it was.
clean_leading_prefixes(text) ==
    LET raw == Lines(text)
        lines == [k \in 1..Len(raw) |-> RStrip(raw[k])]
        skipped == IF Len(lines) >= 1 /\ IsOpeningLine(lines[1])
                   THEN IF Len(lines) >= 2 /\ IsOpeningLine(lines[2]) THEN 2 ELSE 1
                   ELSE 0
        out == SubSeq(lines, skipped + 1, Len(lines))
    IN  IF out # <<>> THEN JoinLines(out) ELSE text

SnippetLimit == 40

\* [-*•·•]
IsListMark(ch) == ch \in {"-", "*", Bullet, MidDot}

\* make_snippet (lines 121-127)
make_snippet(full_text, limit) ==
    LET lines == Lines(full_text)
        filled == {k \in 1..Len(lines) : Strip(lines[k], Whitespace) # <<>>}
    IN  IF filled = {} THEN <<>>
        ELSE LET t == Strip(lines[Least(filled)], Whitespace)
                 afterMarks == SkipWhile(t, 1, IsListMark)
                 \* re.sub(r"^[-*•·•]+\s*", "", t)
                 from == IF afterMarks = 1 THEN 1 ELSE SkipWhile(t, afterMarks, IsSpace)
             IN  Strip(Take(SubSeq(t, from, Len(t)), limit), Whitespace)

(***************************************************************************)
(* main of src/summarize_and_email.py (lines 287-336), beside main of the  *)
(* template summarizer.  A row of the day's partition carries, with its    *)
(* title, channel and description, what the completion service is going to *)
(* answer for it.                                                          *)
(***************************************************************************)
\* str(e) of the exception a failed call raises: the message of an HTTPError
\* begins with the status, that of the KeyError for a body without choices
\* is the quoted key.
ErrorMessage(r) ==
    LET st == r.statuses[Len(r.statuses)]
        digit(d) == Chars("0123456789")[d + 1]
    IN  IF r.pc = "returned" THEN Chars("'choices'")
        ELSE <<digit(st \div 100), digit((st \div 10) % 10), digit(st % 10)>> \o Chars(" Error")

RECURSIVE MainPostRun(_, _)
MainPostRun(r, script) ==
    IF r.pc # "loop" \/ script = <<>> THEN r
    ELSE MainPostRun(RetryIteration(r, Head(script)), Tail(script))

main_call_openrouterUnchecked(row) ==
    LET r == MainPostRun(RetryStart(DefaultTries), row.script)
    IN  [requests |-> Len(r.statuses),
         last |-> r.statuses[Len(r.statuses)],
         raises |-> r.pc # "returned",
         message |-> ErrorMessage(r),
         content |-> Strip(row.text, Whitespace)]

\* call_openrouter (lines 72-82) with the key configured: post_with_retries
\* with the default tries, .json() and the subscripts, .strip()
main_call_openrouter(row) ==
    LET r == MainPostRun(RetryStart(DefaultTries), row.script)
    IN  [requests |-> Len(r.statuses),
         last |-> r.statuses[Len(r.statuses)],
         raises |-> r.pc # "returned" \/ row.body = "malformed",
         message |-> ErrorMessage(r),
         content |-> Strip(row.text, Whitespace)]

\* "（模型调用失败："
FailureMarker == <<"U+FF08", "U+6A21", "U+578B", "U+8C03", "U+7528", "U+5931", "U+8D25", "U+FF1A">>

\* The f-string of line 317.
FailureText(message, title, ch, desc) ==
    FailureMarker \o message
    \o <<"U+FF09", "U+FF08", "U+57FA", "U+4E8E", "U+6807", "U+9898", "+", "U+7B80", "U+4ECB",
         "U+FF09", "\n", "U+6807", "U+9898", "U+FF1A">> \o title
    \o <<"\n", "U+9891", "U+9053", "U+FF1A">> \o ch
    \o <<"\n", "U+7B80", "U+4ECB", "U+FF1A">> \o Take(desc, 400)

\* A fenced answer that opens with a courtesy line.
FencedAnswer ==
    Fence \o Chars("markdown\n") \o <<"U+597D", "U+7684", "U+FF1A">>
    \o Chars("\n- first point\nsecond line\n") \o Fence

\* A description most of which is a fenced block.
FencedDescription ==
    Fence \o Chars("\npip install podcast-tools && podcast-tools run --daily\n") \o Fence

MainRows ==
    {[script |-> <<200>>, body |-> "completion", text |-> FencedAnswer,
      title |-> Chars("T1"), channel_title |-> Chars("C"), description |-> Chars("d")],
     [script |-> <<503, 200>>, body |-> "completion", text |-> PlainExample,
      title |-> Chars("T2"), channel_title |-> Chars("C"), description |-> <<>>],
     [script |-> <<404>>, body |-> "malformed", text |-> <<>>,
      title |-> Chars("T3"), channel_title |-> Chars("C"), description |-> Chars("two\nlines")],
     [script |-> <<503, 429, 500, 502, 504>>, body |-> "malformed", text |-> <<>>,
      title |-> Chars("T4"), channel_title |-> Chars("C"), description |-> FencedDescription],
     [script |-> <<200>>, body |-> "malformed", text |-> <<>>,
      title |-> Chars("T5"), channel_title |-> Chars("C"), description |-> <<>>]}

MainStart(rows) == [rows |-> rows, i |-> 1, items |-> <<>>, calls |-> <<>>, pc |-> "main_loop"]

\* Lines 302-331, one iteration of `for r in rows`.
MainStep(sm) ==
    LET row == sm.rows[sm.i]
        call == main_call_openrouter(row)
        raw == IF call.raises
               THEN FailureText(call.message, row.title, row.channel_title, row.description)
               ELSE call.content
        cleaned == clean_leading_prefixes(strip_code_fences(raw))
        snippet == make_snippet(cleaned, SnippetLimit)
    IN  [sm EXCEPT !.calls = Append(@, [requests |-> call.requests, last |-> call.last,
                                        raises |-> call.raises]),
                   !.items = Append(@, [row |-> sm.i, snippet |-> snippet,
                                        summary_md |-> cleaned]),
                   !.i = sm.i + 1]

\* Either main starts on the rows load_today_updates returned.
ReportInit ==
    /\ RunIdle
    /\ PureIdle
    /\ norm = NormIdle
    /\ lister = ListerIdle
    /\ tretry = RetryIdle
    /\ summ \in {SummStart(rows) : rows \in UNION {[1..n -> Services] : n \in 0..MaxReportRows}}
               \cup {MainStart(rows) :
                       rows \in UNION {[1..n -> MainRows] : n \in 0..MaxReportRows}}

MainSummarizeRow ==
    /\ summ.pc = "main_loop"
    /\ summ.i <= Len(summ.rows)
    /\ summ' = MainStep(summ)
    /\ UNCHANGED <<norm, lister, retry, tretry, sorter, walk, enrich>>
    /\ UNCHANGED runVars

\* Lines 295-300 and 333-335: the PDF is built from the items and mailed, also
\* when there was no row.
MainSendReport ==
    /\ summ.pc = "main_loop"
    /\ summ.i > Len(summ.rows)
    /\ summ' = [summ EXCEPT !.pc = "main_sent"]
    /\ UNCHANGED <<norm, lister, retry, tretry, sorter, walk, enrich>>
    /\ UNCHANGED runVars

SpecReportNext == SummarizeRow \/ SendReport \/ MainSummarizeRow \/ MainSendReport

SpecReport == ReportInit /\ [][SpecReportNext]_vars

\* The completion call for the row fails: the last response the service gives
\* is not a 2xx one, or its body is no completion.
RowFails(row) ==
    \/ row.script[Len(row.script)] \notin 200..299
    \/ row.body = "malformed"

Infix(a, b) == \E k \in 1..(Len(b) - Len(a) + 1) : SubSeq(b, k, k + Len(a) - 1) = a

\* C26: while either main runs it has made one item for each row it is past,
\* the k-th item for the k-th row; it sends the report with one item per row;
\* the item of a row whose call fails holds placeholder content and no model
\* output: the fixed headline and no points in the template summarizer, a
\* non-empty part of the failure text in the other.
ReportComplete ==
    LET n == Len(summ.items) IN
    /\ summ.pc \in {"loop", "main_loop"} => n = summ.i - 1
    /\ summ.pc \in {"sent", "main_sent"} => n = Len(summ.rows)
    /\ Len(summ.calls) = n
    /\ \A k \in 1..n :
           /\ summ.items[k].row = k
           /\ RowFails(summ.rows[k]) =>
                  IF summ.pc \in {"loop", "sent"}
                  THEN /\ summ.items[k].one_line_summary = CallFailedPlaceholder
                       /\ summ.items[k].key_points = <<>>
                  ELSE LET row == summ.rows[k]
                           text == FailureText(main_call_openrouter(row).message, row.title,
                                               row.channel_title, row.description)
                       IN  /\ summ.items[k].summary_md # <<>>
                           /\ Infix(summ.items[k].summary_md, text)
                           /\ Infix(summ.items[k].snippet, text)

\* Three rows: the first call is refused five times, the second succeeds on
\* its second request, the third is answered 404; the report holds three
\* items, and the first is what the cleaning left of the failure text.
ReportCompleteWitness ==
    /\ summ.pc = "main_sent"
    /\ Len(summ.rows) = 3
    /\ summ.calls[1].requests = 5 /\ summ.calls[1].raises
    /\ summ.calls[2].requests = 2 /\ ~summ.calls[2].raises
    /\ summ.calls[3].last = 404 /\ summ.calls[3].raises
    /\ Len(summ.items) = 3
    /\ summ.items[1].summary_md = Chars("pip install podcast-tools && podcast-tools run --daily")
    /\ StartsWith(summ.items[3].summary_md, 1, FailureMarker \o Chars("404 Error"))

====
